---- MODULE Spec2Model ----
(***************************************************************************)
(* A model of featuretools' EntitySet (entityset/ww_entityset.py): the     *)
(* table collection, the relationship list, the shared time type, the      *)
(* cached metadata snapshot, and the operations that mutate or query them. *)
(*                                                                         *)
(* A dataframe is a record of what the EntitySet reads and writes through  *)
(* the Woodwork accessor (df.ww): its name, index, time index, semantic    *)
(* tags, physical types and table metadata, plus the two facts about the   *)
(* data the handlers branch on (the engine and whether the frame is        *)
(* empty).  Accessor attributes are read as what their names say: ww.id    *)
(* and ww.name both denote the table identifier.                           *)
(***************************************************************************)
EXTENDS Integers, Sequences, FiniteSets, TLC

VARIABLES
    dataframe_dict,     \* self.dataframe_dict: dataframe id -> dataframe
    dataframe_keys,     \* insertion order of self.dataframe_dict's keys
    relationships,      \* self.relationships
    time_type,          \* self.time_type
    data_description,   \* self._data_description
    result              \* the last call: operation, arguments, outcome, value

vars == <<dataframe_dict, dataframe_keys, relationships, time_type,
          data_description, result>>

-----------------------------------------------------------------------------
(* Bounds of the model.                                                    *)

\* The relationship list is not allowed to grow beyond this length.
MaxRelationships == 3

\* The dataframes whose rows are modelled hold at most this many rows.
MaxRows == 3

\* Python's None, where the other values are strings (column ids, time types).
None == "None"

\* Python's True and False, where the other values are None or column ids.
True == "True"
False == "False"

\* The dataframe ids the callers use.
DataframeIds == {"A", "B"}

-----------------------------------------------------------------------------
(* Sequences.                                                              *)

Range(s) == {s[i] : i \in 1..Len(s)}

\* list[::-1]
Reverse(s) == [i \in 1..Len(s) |-> s[Len(s) + 1 - i]]

\* The concatenation of a sequence of sequences, in order.
RECURSIVE Flatten(_)
Flatten(ss) ==
    IF ss = <<>> THEN <<>> ELSE Head(ss) \o Flatten(Tail(ss))

-----------------------------------------------------------------------------
(* Dataframes, as seen through the Woodwork accessor.                      *)

\* The physical types (pandas dtypes) the model distinguishes.
Dtypes == {"int64", "float64", "object", "datetime64[ns]"}

\* ColumnSchema.is_numeric
IsNumeric(dtype) == dtype \in {"int64", "float64"}

\* isinstance(df, pd.DataFrame)
IsPandas(df) == df.engine = "pandas"

\* df.ww.set_index(column): the column becomes the index.
WwSetIndex(df, column) == [df EXCEPT !.index = column]

\* df.ww.add_semantic_tags({column: tag})
WwAddSemanticTags(df, column, tag) ==
    [df EXCEPT !.semantic_tags[column] = @ \cup {tag}]

-----------------------------------------------------------------------------
(* Relationship (entityset/relationship.py).                               *)

\* Relationship(entityset, parent_dataframe_id, parent_column_id,
\*              child_dataframe_id, child_column_id): the four identifying ids.
Relationship(parent_df, parent_col, child_df, child_col) ==
    [parent_dataframe_id |-> parent_df,
     parent_column_id    |-> parent_col,
     child_dataframe_id  |-> child_df,
     child_column_id     |-> child_col]

\* Relationship.__eq__: structural equality on the four identifying ids.
RelationshipEq(r1, r2) ==
    /\ r1.parent_dataframe_id = r2.parent_dataframe_id
    /\ r1.parent_column_id = r2.parent_column_id
    /\ r1.child_dataframe_id = r2.child_dataframe_id
    /\ r1.child_column_id = r2.child_column_id

\* A step of a RelationshipPath, as in RelationshipPath([(True, relationship)]):
\* a relationship and its direction flag.  Paths are concatenated with +.
Step(is_forward, relationship) ==
    [is_forward |-> is_forward, relationship |-> relationship]

\* relationship.parent_dataframe / relationship.child_dataframe
ParentDataframe(r) == dataframe_dict[r.parent_dataframe_id]
ChildDataframe(r) == dataframe_dict[r.child_dataframe_id]

-----------------------------------------------------------------------------
(* The calls' outcomes, as recorded in result.                             *)

\* What a call that changes nothing but result leaves alone.
Call(op, args, outcome, value) ==
    [op |-> op, args |-> args, outcome |-> outcome, value |-> value]

\* self.reset_data_description(): the cached snapshot is unset.
NoDescription == <<>>

\* serialize.entityset_to_description followed by
\* deserialize.description_to_entityset: a schema-only copy of the
\* EntitySet (no row data: every dataframe of the copy is empty).
SchemaOnly(df) == [df EXCEPT !.empty = TRUE]
Description ==
    <<[dataframes    |-> [id \in DOMAIN dataframe_dict |->
                             SchemaOnly(dataframe_dict[id])],
       relationships |-> relationships,
       time_type     |-> time_type]>>

-----------------------------------------------------------------------------
(* add_relationship.                                                       *)

\* A variant of the membership test that compares the new relationship with
\* the one registered last only.
IsDuplicateOfLast(r) ==
    /\ relationships # <<>>
    /\ RelationshipEq(relationships[Len(relationships)], r)

\* relationship in self.relationships
IsDuplicate(r) ==
    \E i \in 1..Len(relationships) : RelationshipEq(relationships[i], r)

\* child_df.ww.index == child_column
ChildColumnIsIndex(child_df, child_column) == child_df.index = child_column

\* if 'foreign_key' not in child_df.ww.semantic_tags[child_column]: add it
TagForeignKey(dfs, r) ==
    LET child_df == dfs[r.child_dataframe_id]
    IN  IF "foreign_key" \notin child_df.semantic_tags[r.child_column_id]
        THEN [dfs EXCEPT ![r.child_dataframe_id] =
                  WwAddSemanticTags(child_df, r.child_column_id, "foreign_key")]
        ELSE dfs

\* if parent_df.ww.index != parent_column: parent_df.ww.set_index(parent_column)
PromoteParentIndex(dfs, r) ==
    LET parent_df == dfs[r.parent_dataframe_id]
    IN  IF parent_df.index # r.parent_column_id
        THEN [dfs EXCEPT ![r.parent_dataframe_id] =
                  WwSetIndex(parent_df, r.parent_column_id)]
        ELSE dfs

\* An empty pandas child whose column is of dtype object gets the column
\* replaced by an int64 one when the parent column is numeric.
ConvertEmptyChildColumn(dfs, r) ==
    LET child_df  == dfs[r.child_dataframe_id]
        parent_df == dfs[r.parent_dataframe_id]
    IN  IF /\ IsPandas(child_df)
           /\ child_df.empty
           /\ child_df.dtype[r.child_column_id] = "object"
           /\ IsNumeric(parent_df.dtype[r.parent_column_id])
        THEN [dfs EXCEPT ![r.child_dataframe_id].dtype[r.child_column_id] = "int64"]
        ELSE dfs

\* is_dtype_equal(parent_dtype, child_dtype)
IsDtypeEqual(dfs, r) ==
    dfs[r.parent_dataframe_id].dtype[r.parent_column_id] =
        dfs[r.child_dataframe_id].dtype[r.child_column_id]

\* The lookups of the child and the parent column: both dataframes are
\* registered and hold the columns.
ChildExists(r) ==
    /\ r.child_dataframe_id \in DOMAIN dataframe_dict
    /\ r.child_column_id \in dataframe_dict[r.child_dataframe_id].columns
ParentExists(r) ==
    /\ r.parent_dataframe_id \in DOMAIN dataframe_dict
    /\ r.parent_column_id \in dataframe_dict[r.parent_dataframe_id].columns

\* A variant of add_relationship that compares the dtypes before it tags the
\* child column and promotes the parent column, so that a call that raises
\* leaves the dataframes as they were.
AddRelationshipEffectChecksFirst(form, r) ==
    LET Unchanged(outcome) ==
            [outcome |-> outcome, dataframes |-> dataframe_dict,
             relationships |-> relationships, reset |-> FALSE]
    IN  IF form = "both" THEN Unchanged("ValueError: ids and Relationship")
        ELSE IF IsDuplicate(r) THEN Unchanged("warning")
        ELSE IF ~ChildExists(r) THEN Unchanged("KeyError")
        ELSE IF ChildColumnIsIndex(ChildDataframe(r), r.child_column_id)
             THEN Unchanged("ValueError: child column is also its index")
        ELSE IF ~ParentExists(r) THEN Unchanged("KeyError")
        ELSE IF ~IsDtypeEqual(ConvertEmptyChildColumn(dataframe_dict, r), r)
             THEN Unchanged("ValueError: dtypes differ")
        ELSE [outcome |-> "returned",
              dataframes |-> ConvertEmptyChildColumn(
                                 PromoteParentIndex(
                                     TagForeignKey(dataframe_dict, r), r), r),
              relationships |-> Append(relationships, r),
              reset |-> TRUE]

\* The effect of add_relationship: the outcome, the dataframes and the
\* relationship list it leaves, and whether it reset the cached snapshot.
\* form tells how the caller named the relationship: by the four ids, by a
\* Relationship object, or (wrongly) by both.
AddRelationshipEffect(form, r) ==
    LET Unchanged(outcome) ==
            [outcome |-> outcome, dataframes |-> dataframe_dict,
             relationships |-> relationships, reset |-> FALSE]
    IN  IF form = "both" THEN Unchanged("ValueError: ids and Relationship")
        ELSE IF IsDuplicate(r) THEN Unchanged("warning")
        ELSE IF ~ChildExists(r) THEN Unchanged("KeyError")
        ELSE IF ChildColumnIsIndex(ChildDataframe(r), r.child_column_id)
             THEN Unchanged("ValueError: child column is also its index")
        ELSE IF ~ParentExists(r) THEN Unchanged("KeyError")
        ELSE LET tagged    == TagForeignKey(dataframe_dict, r)
                 promoted  == PromoteParentIndex(tagged, r)
                 converted == ConvertEmptyChildColumn(promoted, r)
             IN  IF ~IsDtypeEqual(converted, r)
                 THEN [outcome |-> "ValueError: dtypes differ",
                       dataframes |-> converted,
                       relationships |-> relationships, reset |-> FALSE]
                 ELSE [outcome |-> "returned", dataframes |-> converted,
                       relationships |-> Append(relationships, r),
                       reset |-> TRUE]

add_relationship(form, r) ==
    LET e == AddRelationshipEffect(form, r)
    IN  /\ dataframe_dict' = e.dataframes
        /\ relationships' = e.relationships
        /\ data_description' = IF e.reset THEN NoDescription ELSE data_description
        /\ result' = Call("add_relationship", <<>>, e.outcome, <<>>)
        /\ UNCHANGED <<dataframe_keys, time_type>>

-----------------------------------------------------------------------------
(* Time indexes.                                                           *)

\* _get_time_type: the classification of a column, from its physical type
\* (an empty or non-pandas frame) or its first value (otherwise).
GetTimeType(df, column_id) ==
    CASE IsNumeric(df.dtype[column_id]) -> "numeric"
      [] df.dtype[column_id] = "datetime64[ns]" -> "datetime"
      [] OTHER -> None

\* A variant of _check_uniform_time_index that takes every recognised time
\* type for the EntitySet's own, without comparing the two.
CheckUniformTimeIndexUncompared(tt, df, column_id) ==
    LET column == IF column_id = None THEN df.time_index ELSE column_id
    IN  IF column = None THEN [time_type |-> tt, raised |-> FALSE]
        ELSE LET t == GetTimeType(df, column)
             IN  IF t = None THEN [time_type |-> tt, raised |-> TRUE]
                 ELSE [time_type |-> t, raised |-> FALSE]

\* _check_uniform_time_index: the time type it leaves and whether it raised.
CheckUniformTimeIndex(tt, df, column_id) ==
    LET column == IF column_id = None THEN df.time_index ELSE column_id
    IN  IF column = None THEN [time_type |-> tt, raised |-> FALSE]
        ELSE LET t == GetTimeType(df, column)
             IN  IF t = None THEN [time_type |-> tt, raised |-> TRUE]
                 ELSE IF tt = None THEN [time_type |-> t, raised |-> FALSE]
                 ELSE [time_type |-> tt, raised |-> tt # t]

\* _check_secondary_time_index over a declaration sti (a sequence of
\* [time_index, columns] entries, in the dict's order): each time column is
\* checked and appended to its own column list when missing.
RECURSIVE CheckSecondaryTimeIndexAppending(_, _, _)
RECURSIVE CheckSecondaryTimeIndex(_, _, _)

\* A variant of _check_secondary_time_index that appends each time column to
\* its own column list whether or not the list names it.
CheckSecondaryTimeIndexAppending(tt, df, sti) ==
    IF sti = <<>> THEN [time_type |-> tt, raised |-> FALSE, sti |-> <<>>]
    ELSE LET entry == Head(sti)
             c     == CheckUniformTimeIndex(tt, df, entry.time_index)
         IN  IF c.raised
             THEN [time_type |-> c.time_type, raised |-> TRUE, sti |-> sti]
             ELSE LET fixed == [entry EXCEPT !.columns =
                                    Append(@, entry.time_index)]
                      rest  == CheckSecondaryTimeIndexAppending(
                                   c.time_type, df, Tail(sti))
                  IN  [time_type |-> rest.time_type, raised |-> rest.raised,
                       sti |-> <<fixed>> \o rest.sti]

CheckSecondaryTimeIndex(tt, df, sti) ==
    IF sti = <<>> THEN [time_type |-> tt, raised |-> FALSE, sti |-> <<>>]
    ELSE LET entry == Head(sti)
             c     == CheckUniformTimeIndex(tt, df, entry.time_index)
         IN  IF c.raised
             THEN [time_type |-> c.time_type, raised |-> TRUE, sti |-> sti]
             ELSE LET fixed == IF entry.time_index \in Range(entry.columns)
                               THEN entry
                               ELSE [entry EXCEPT !.columns =
                                         Append(@, entry.time_index)]
                      rest  == CheckSecondaryTimeIndex(c.time_type, df, Tail(sti))
                  IN  [time_type |-> rest.time_type, raised |-> rest.raised,
                       sti |-> <<fixed>> \o rest.sti]

\* set_secondary_time_index(dataframe, secondary_time_index): the declaration
\* is checked (the stored one, when an empty declaration is given) and then
\* stored in the dataframe's metadata.  The cached snapshot is left alone.
SetSecondaryTimeIndexEffect(dataframe_id, sti) ==
    LET df      == dataframe_dict[dataframe_id]
        checked == IF sti # <<>> THEN sti ELSE df.secondary_time_index
        c       == CheckSecondaryTimeIndex(time_type, df, checked)
    IN  [outcome    |-> IF c.raised THEN "TypeError" ELSE "returned",
         dataframes |-> IF c.raised THEN dataframe_dict
                        ELSE [dataframe_dict EXCEPT
                                 ![dataframe_id].secondary_time_index =
                                     IF sti # <<>> THEN c.sti ELSE <<>>],
         time_type  |-> c.time_type]

set_secondary_time_index(dataframe_id, sti) ==
    LET e == SetSecondaryTimeIndexEffect(dataframe_id, sti)
    IN  /\ dataframe_id \in DOMAIN dataframe_dict
        /\ dataframe_dict' = e.dataframes
        /\ time_type' = e.time_type
        /\ result' = Call("set_secondary_time_index", <<>>, e.outcome, <<>>)
        /\ UNCHANGED <<dataframe_keys, relationships, data_description>>

-----------------------------------------------------------------------------
(* add_dataframe.                                                          *)

\* dataframe.ww.init(name, index, time_index, logical_types, semantic_tags):
\* the schema of a frame that had none.
WwInit(frame, name, index, time_index, semantic_tags) ==
    [name                 |-> name,
     columns              |-> frame.columns,
     dtype                |-> frame.dtype,
     empty                |-> frame.empty,
     engine               |-> frame.engine,
     index                |-> index,
     time_index           |-> time_index,
     semantic_tags        |-> semantic_tags,
     secondary_time_index |-> <<>>]

\* No semantic tags given.
NoTags(frame) == [c \in frame.columns |-> {}]

\* A variant of the engine test that accepts every frame.
SameEngineAsAny(frame) == TRUE

\* isinstance(dataframe, type(self.dataframes[0]))
SameEngineAsFirst(frame) ==
    frame.engine = dataframe_dict[dataframe_keys[1]].engine

\* self.dataframe_dict[dataframe_id] = dataframe
Register(dfs, dataframe_id, df) ==
    [id \in DOMAIN dfs \cup {dataframe_id} |->
        IF id = dataframe_id THEN df ELSE dfs[id]]
RegisterKey(keys, dataframe_id) ==
    IF dataframe_id \in Range(keys) THEN keys ELSE Append(keys, dataframe_id)

\* The effect of add_dataframe on a frame, given with or without a schema.
\* A frame that comes with a schema carries the one ww.init gives it under
\* the caller's own name, and is renamed.
AddDataframeEffect(dataframe_id, frame, has_schema, index, time_index, tags, sti) ==
    LET Raised(outcome, tt) ==
            [outcome |-> outcome, dataframes |-> dataframe_dict,
             keys |-> dataframe_keys, time_type |-> tt, reset |-> FALSE]
    IN  IF Len(dataframe_keys) > 0 /\ ~SameEngineAsFirst(frame)
        THEN Raised("ValueError", time_type)
        ELSE
        LET df0 == IF has_schema
                   THEN [WwInit(frame, "caller", index, time_index, tags)
                            EXCEPT !.name = dataframe_id,
                                   !.secondary_time_index =
                                       frame.secondary_time_index]
                   ELSE WwInit(frame, dataframe_id, index, time_index, tags)
            \* if secondary_time_index: self.set_secondary_time_index(...)
            c1  == IF sti # <<>>
                   THEN CheckSecondaryTimeIndex(time_type, df0, sti)
                   ELSE [time_type |-> time_type, raised |-> FALSE,
                         sti |-> df0.secondary_time_index]
            df1 == [df0 EXCEPT !.secondary_time_index = c1.sti]
        IN  IF c1.raised THEN Raised("TypeError", c1.time_type)
            ELSE IF df1.time_index = None
            THEN [outcome |-> "returned",
                  dataframes |-> Register(dataframe_dict, dataframe_id, df1),
                  keys |-> RegisterKey(dataframe_keys, dataframe_id),
                  time_type |-> c1.time_type, reset |-> TRUE]
            ELSE
            LET c2  == CheckUniformTimeIndex(c1.time_type, df1, None)
                c3  == CheckSecondaryTimeIndex(c2.time_type, df1,
                                               df1.secondary_time_index)
                df2 == [df1 EXCEPT !.secondary_time_index = c3.sti]
            IN  IF c2.raised THEN Raised("TypeError", c2.time_type)
                ELSE IF c3.raised THEN Raised("TypeError", c3.time_type)
                ELSE [outcome |-> "returned",
                      dataframes |-> Register(dataframe_dict, dataframe_id, df2),
                      keys |-> RegisterKey(dataframe_keys, dataframe_id),
                      time_type |-> c3.time_type, reset |-> TRUE]

add_dataframe(dataframe_id, frame, has_schema, index, time_index, tags, sti) ==
    LET e == AddDataframeEffect(dataframe_id, frame, has_schema, index,
                                time_index, tags, sti)
    IN  /\ dataframe_dict' = e.dataframes
        /\ dataframe_keys' = e.keys
        /\ time_type' = e.time_type
        /\ data_description' = IF e.reset THEN NoDescription ELSE data_description
        /\ result' = Call("add_dataframe", <<>>, e.outcome, <<>>)
        /\ UNCHANGED relationships

-----------------------------------------------------------------------------
(* normalize_dataframe.                                                    *)

\* A value given for additional_columns or copy_columns: its Python type and
\* its items.  None is the value of type NoneType with no items.
ColumnsArg(type, items) == [type |-> type, items |-> items]
NoColumns == ColumnsArg("NoneType", <<>>)

\* additional_columns or []: a falsy value (None, or any empty collection)
\* is replaced by a new empty list.
OrEmptyList(arg) ==
    IF arg.items = <<>> THEN ColumnsArg("list", <<>>) ELSE arg

\* len(columns) != len(set(columns))
ContainsDuplicate(columns) == Len(columns) # Cardinality(Range(columns))

\* A variant of the drop that leaves the frame as it is.
WwDropNothing(df, columns) == df

\* df.ww.drop(columns): the columns leave the frame and its schema.
WwDrop(df, columns) ==
    LET kept == df.columns \ Range(columns)
    IN  [df EXCEPT !.columns = kept,
                   !.dtype = [c \in kept |-> df.dtype[c]],
                   !.semantic_tags = [c \in kept |-> df.semantic_tags[c]],
                   !.index = IF @ \in Range(columns) THEN None ELSE @,
                   !.time_index = IF @ \in Range(columns) THEN None ELSE @]

\* add_relationship as the other operations call it, naming the
\* relationship one way: its effect on the dataframes dfs and the list rels
\* the caller has left by then.
AddRelationshipEffectOn(dfs, rels, r) ==
    LET Left(outcome, frames) ==
            [outcome |-> outcome, dataframes |-> frames, relationships |-> rels,
             reset |-> FALSE]
    IN  IF \E i \in 1..Len(rels) : RelationshipEq(rels[i], r)
        THEN Left("warning", dfs)
        ELSE IF \/ r.child_dataframe_id \notin DOMAIN dfs
                \/ r.child_column_id \notin dfs[r.child_dataframe_id].columns
        THEN Left("KeyError", dfs)
        ELSE IF ChildColumnIsIndex(dfs[r.child_dataframe_id], r.child_column_id)
        THEN Left("ValueError: child column is also its index", dfs)
        ELSE IF \/ r.parent_dataframe_id \notin DOMAIN dfs
                \/ r.parent_column_id \notin dfs[r.parent_dataframe_id].columns
        THEN Left("KeyError", dfs)
        ELSE LET tagged    == TagForeignKey(dfs, r)
                 promoted  == PromoteParentIndex(tagged, r)
                 converted == ConvertEmptyChildColumn(promoted, r)
             IN  IF ~IsDtypeEqual(converted, r)
                 THEN Left("ValueError: dtypes differ", converted)
                 ELSE [outcome |-> "returned", dataframes |-> converted,
                       relationships |-> Append(rels, r), reset |-> TRUE]

\* The checks normalize_dataframe makes of its arguments before it builds
\* anything: the error it raises, or None.  additional and copy are the
\* values left by "or []".
NormalizeArgumentError(base_dataframe, index, additional, copy, make_time_index) ==
    LET named_time_index == make_time_index \notin {None, True, False}
        given == additional.items \o copy.items
    IN  IF additional.type # "list" THEN "TypeError: additional_columns"
        ELSE IF ContainsDuplicate(additional.items)
             THEN "ValueError: additional_columns contains duplicate"
        ELSE IF copy.type # "list" THEN "TypeError: copy_columns"
        ELSE IF ContainsDuplicate(copy.items)
             THEN "ValueError: copy_columns contains duplicate"
        ELSE IF index \in Range(given) THEN "ValueError: index and variable"
        ELSE IF /\ base_dataframe.time_index # None
                /\ base_dataframe.time_index \in Range(additional.items)
             THEN "ValueError: base time index"
        ELSE IF named_time_index /\ make_time_index \notin base_dataframe.columns
             THEN "ValueError: make_time_index not in base"
        ELSE IF named_time_index /\ make_time_index \notin Range(given)
             THEN "ValueError: make_time_index not specified"
        ELSE IF index = base_dataframe.index THEN "ValueError: index of the base"
        \* transfer_types[...] = base_dataframe.ww.logical_types[...]
        ELSE IF ~(Range(<<index>> \o given) \subseteq base_dataframe.columns)
             THEN "KeyError"
        ELSE None

\* The time index of the new dataframe: the base column it is taken from,
\* its name, and the columns copied (the base time index is copied when the
\* new time index is the inherited one).
NormalizeTimeIndex(base_dataframe, additional_columns, copy_items, make_time_index, new_dataframe_time_index) ==
    LET named_time_index == make_time_index \notin {None, True, False}
        make == IF make_time_index = None
                THEN base_dataframe.time_index # None
                ELSE make_time_index # False
        inherited == ~named_time_index /\ make
    IN  [error |-> IF inherited /\ base_dataframe.time_index = None
                   THEN "AssertionError" ELSE None,
         base_time_index |->
             IF named_time_index THEN make_time_index
             ELSE IF inherited THEN base_dataframe.time_index ELSE None,
         time_index |->
             IF named_time_index THEN make_time_index
             ELSE IF ~inherited THEN None
             ELSE IF new_dataframe_time_index = None
                  THEN "first_" \o base_dataframe.name \o "_time"
                  ELSE new_dataframe_time_index,
         copy_columns |->
             IF /\ inherited
                /\ base_dataframe.time_index \notin Range(additional_columns)
             THEN Append(copy_items, base_dataframe.time_index)
             ELSE copy_items]

\* rename(columns={base_time_index: new_dataframe_time_index})
RenameColumn(c, base_time_index, time_index) ==
    IF base_time_index # None /\ c = base_time_index THEN time_index ELSE c

\* The frame normalize_dataframe hands to add_dataframe, and the semantic
\* tags it transfers: the selected columns of the base (the time index
\* under its new name) joined with the secondary time index columns.
NormalizedFrame(base_dataframe, selected_columns, renamed_columns, secondary_columns) ==
    LET Original(c) == IF c \in Range(renamed_columns)
                       THEN selected_columns[
                                CHOOSE i \in 1..Len(selected_columns) :
                                    renamed_columns[i] = c]
                       ELSE c
        new_columns == Range(renamed_columns) \cup Range(secondary_columns)
    IN  [frame |-> [engine  |-> base_dataframe.engine,
                    empty   |-> base_dataframe.empty,
                    columns |-> new_columns,
                    dtype   |-> [c \in new_columns |->
                                    base_dataframe.dtype[Original(c)]],
                    secondary_time_index |-> <<>>],
         semantic_tags |->
             [c \in new_columns |->
                 IF c \in Range(renamed_columns)
                 THEN base_dataframe.semantic_tags[Original(c)] \ {"time_index"}
                 ELSE {}]]

\* The relationship is added, and the cached snapshot reset.
NormalizeRelate(added, related) ==
    [outcome |-> IF related.outcome = "warning" THEN "returned"
                 ELSE related.outcome,
     dataframes |-> related.dataframes, keys |-> added.keys,
     relationships |-> related.relationships,
     time_type |-> added.time_type, reset |-> TRUE]

\* What normalize_dataframe does once it has called add_dataframe, with the
\* effect added: when that call has raised, nothing; otherwise the
\* additional columns leave the base, its index column is tagged, the
\* relationship is added and the cached snapshot is reset.
NormalizeAfterAdd(added, base_dataframe_id, new_dataframe_id, index, additional_columns) ==
    IF added.outcome # "returned"
    THEN [outcome |-> added.outcome,
          dataframes |-> added.dataframes, keys |-> added.keys,
          relationships |-> relationships,
          time_type |-> added.time_type, reset |-> added.reset]
    ELSE LET dropped == [added.dataframes EXCEPT ![base_dataframe_id] =
                             WwDrop(@, additional_columns)]
             tagged  == [dropped EXCEPT ![base_dataframe_id] =
                             WwAddSemanticTags(@, index, "foreign_key")]
         IN  NormalizeRelate(added,
                             AddRelationshipEffectOn(
                                 tagged, relationships,
                                 Relationship(new_dataframe_id, index,
                                              base_dataframe_id, index)))

\* add_dataframe is called with the new frame and the transferred tags.
NormalizeAdd(new, base_dataframe_id, new_dataframe_id, index, additional_columns, time_index, make_secondary_time_index) ==
    NormalizeAfterAdd(AddDataframeEffect(new_dataframe_id, new.frame, FALSE,
                                         index, time_index, new.semantic_tags,
                                         make_secondary_time_index),
                      base_dataframe_id, new_dataframe_id, index,
                      additional_columns)

\* The new dataframe is built and added.  plan is the time index of the
\* new dataframe.
NormalizeBuild(base_dataframe_id, new_dataframe_id, index, additional_columns, plan, make_secondary_time_index) ==
    LET Raised(outcome) ==
            [outcome |-> outcome, dataframes |-> dataframe_dict,
             keys |-> dataframe_keys, relationships |-> relationships,
             time_type |-> time_type, reset |-> FALSE]
        base_dataframe == dataframe_dict[base_dataframe_id]
        selected_columns == <<index>> \o additional_columns \o plan.copy_columns
        renamed_columns ==
            [i \in 1..Len(selected_columns) |->
                RenameColumn(selected_columns[i], plan.base_time_index,
                             plan.time_index)]
        secondary_columns ==
            IF make_secondary_time_index = <<>> THEN <<>>
            ELSE <<make_secondary_time_index[1].time_index>>
                 \o make_secondary_time_index[1].columns
    IN  IF plan.time_index # None /\ plan.time_index = index
        THEN Raised("ValueError: time_index and index")
        \* new_dataframe[secondary_columns]
        ELSE IF ~(Range(secondary_columns) \subseteq base_dataframe.columns)
        THEN Raised("KeyError")
        \* new_dataframe2.join(secondary_df, on=index)
        ELSE IF Range(secondary_columns) \cap Range(renamed_columns) # {}
        THEN Raised("ValueError: columns overlap")
        \* ww.init refuses a frame with two columns of one name
        ELSE IF ContainsDuplicate(renamed_columns)
        THEN Raised("IndexError")
        ELSE NormalizeAdd(NormalizedFrame(base_dataframe, selected_columns,
                                          renamed_columns, secondary_columns),
                          base_dataframe_id, new_dataframe_id, index,
                          additional_columns, plan.time_index,
                          make_secondary_time_index)

\* The effect of normalize_dataframe.  make_time_index is None, True, False
\* or a column id; make_secondary_time_index is a declaration of at most one
\* entry; new_dataframe_time_index is None or a column id; the secondary
\* time index keeps its name (new_dataframe_secondary_time_index is None).
NormalizeDataframeEffect(base_dataframe_id, new_dataframe_id, index, additional_arg, copy_arg, make_time_index, make_secondary_time_index, new_dataframe_time_index) ==
    LET Raised(outcome) ==
            [outcome |-> outcome, dataframes |-> dataframe_dict,
             keys |-> dataframe_keys, relationships |-> relationships,
             time_type |-> time_type, reset |-> FALSE]
        base_dataframe == dataframe_dict[base_dataframe_id]
        additional == OrEmptyList(additional_arg)
        copy == OrEmptyList(copy_arg)
        error == NormalizeArgumentError(base_dataframe, index, additional, copy,
                                        make_time_index)
    IN  IF error # None THEN Raised(error)
        ELSE LET plan == NormalizeTimeIndex(base_dataframe, additional.items,
                                            copy.items, make_time_index,
                                            new_dataframe_time_index)
             IN  IF plan.error # None THEN Raised(plan.error)
                 ELSE NormalizeBuild(base_dataframe_id, new_dataframe_id, index,
                                     additional.items, plan,
                                     make_secondary_time_index)

\* The EntitySet and the call's record after a call of normalize_dataframe
\* with the arguments args and the effect e.
NormalizeDataframeLeaves(args, e) ==
    /\ dataframe_dict' = e.dataframes
    /\ dataframe_keys' = e.keys
    /\ relationships' = e.relationships
    /\ time_type' = e.time_type
    /\ data_description' = IF e.reset THEN NoDescription ELSE data_description
    /\ result' = Call("normalize_dataframe", args, e.outcome, <<>>)

normalize_dataframe(base_dataframe_id, new_dataframe_id, index, additional_arg, copy_arg, make_time_index, make_secondary_time_index, new_dataframe_time_index) ==
    /\ base_dataframe_id \in DOMAIN dataframe_dict
    /\ NormalizeDataframeLeaves(
           [base_dataframe_id         |-> base_dataframe_id,
            new_dataframe_id          |-> new_dataframe_id,
            index                     |-> index,
            additional_columns        |-> additional_arg,
            copy_columns              |-> copy_arg,
            make_time_index           |-> make_time_index,
            make_secondary_time_index |-> make_secondary_time_index],
           NormalizeDataframeEffect(base_dataframe_id, new_dataframe_id,
                                    index, additional_arg, copy_arg,
                                    make_time_index, make_secondary_time_index,
                                    new_dataframe_time_index))

\* add_relationships(relationships): add_relationship for each item in
\* turn; the first call that raises ends the loop, and what the calls
\* before it did stays.
RECURSIVE AddRelationshipsEffect(_, _, _, _)
AddRelationshipsEffect(dfs, rels, reset, items) ==
    IF items = <<>>
    THEN [outcome |-> "returned", dataframes |-> dfs, relationships |-> rels,
          reset |-> reset]
    ELSE LET e == AddRelationshipEffectOn(dfs, rels, Head(items))
         IN  IF e.outcome \in {"returned", "warning"}
             THEN AddRelationshipsEffect(e.dataframes, e.relationships,
                                         reset \/ e.reset, Tail(items))
             ELSE [outcome |-> e.outcome, dataframes |-> e.dataframes,
                   relationships |-> e.relationships, reset |-> reset]

\* A variant of add_relationships that makes the items given the
\* EntitySet's relationships, instead of adding them to those it has.
add_relationships_replacing(items) ==
    LET e == AddRelationshipsEffect(dataframe_dict, <<>>, FALSE, items)
    IN  /\ dataframe_dict' = e.dataframes
        /\ relationships' = e.relationships
        /\ data_description' = IF e.reset THEN NoDescription ELSE data_description
        /\ result' = Call("add_relationships", <<>>, e.outcome, <<>>)
        /\ UNCHANGED <<dataframe_keys, time_type>>

add_relationships(items) ==
    LET e == AddRelationshipsEffect(dataframe_dict, relationships, FALSE, items)
    IN  /\ dataframe_dict' = e.dataframes
        /\ relationships' = e.relationships
        /\ data_description' = IF e.reset THEN NoDescription ELSE data_description
        /\ result' = Call("add_relationships", <<>>, e.outcome, <<>>)
        /\ UNCHANGED <<dataframe_keys, time_type>>

-----------------------------------------------------------------------------
(* normalize_dataframe: the rows of the new dataframe (pandas).            *)

\* rows.drop_duplicates(index, keep='first'): of the rows that agree on
\* index, the first stays.
DropDuplicatesKeepFirst(rows, index) ==
    SelectSeq([i \in 1..Len(rows) |-> [at |-> i, row |-> rows[i]]],
              LAMBDA e : \A j \in 1..(e.at - 1) : rows[j][index] # e.row[index])

\* A variant of keep='last' that keeps the first row.
DropDuplicatesKeepLastAsFirst(rows, index) ==
    DropDuplicatesKeepFirst(rows, index)

\* rows.drop_duplicates(index, keep='last'): of the rows that agree on
\* index, the last stays.
DropDuplicatesKeepLast(rows, index) ==
    SelectSeq([i \in 1..Len(rows) |-> [at |-> i, row |-> rows[i]]],
              LAMBDA e : \A j \in (e.at + 1)..Len(rows) : rows[j][index] # e.row[index])

\* kept[columns], with the column base_time_index renamed to time_index.
SelectColumns(kept, columns, base_time_index, time_index) ==
    [i \in 1..Len(kept) |->
        [c \in {RenameColumn(columns[n], base_time_index, time_index) :
                    n \in 1..Len(columns)} |->
            kept[i].row[IF c = time_index /\ base_time_index # None
                        THEN base_time_index ELSE c]]]

\* left.join(right.set_index(index), on=index): every row of left, in the
\* order of left, with the columns of the row of right of the same index.
JoinOn(left, right, index) ==
    [i \in 1..Len(left) |->
        LET match == right[CHOOSE j \in 1..Len(right) :
                               right[j][index] = left[i][index]]
        IN  [c \in DOMAIN left[i] \cup DOMAIN match |->
                IF c \in DOMAIN left[i] THEN left[i][c] ELSE match[c]]]

\* rows.sort_values([time_index, index]): ww.init sorts a pandas frame that
\* has a time index and is not given as already sorted.  The rows differ in
\* index.
SortValues(rows, time_index, index) ==
    LET Before(r1, r2) ==
            \/ r1[time_index] < r2[time_index]
            \/ r1[time_index] = r2[time_index] /\ r1[index] < r2[index]
        Rank(i) == 1 + Cardinality({j \in 1..Len(rows) : Before(rows[j], rows[i])})
    IN  [n \in 1..Len(rows) |->
            rows[CHOOSE i \in 1..Len(rows) : Rank(i) = n]]

\* The rows of the dataframe normalize_dataframe registers: those it
\* selects from the rows of the base, joined with the secondary time index
\* columns when one is asked for, as add_dataframe's ww.init leaves them.
NormalizedRows(rows, index, selected_columns, base_time_index, time_index, secondary_columns, already_sorted) ==
    LET first  == SelectColumns(DropDuplicatesKeepFirst(rows, index),
                                selected_columns, base_time_index, time_index)
        joined == IF secondary_columns = <<>> THEN first
                  ELSE JoinOn(first,
                              SelectColumns(DropDuplicatesKeepLast(rows, index),
                                            <<index>> \o secondary_columns,
                                            None, None),
                              index)
    IN  IF time_index # None /\ ~already_sorted
        THEN SortValues(joined, time_index, index)
        ELSE joined

\* normalize_dataframe on a base whose rows are given, with index k, the
\* copy columns given, and the secondary time index s when one is asked
\* for, in the calls that get as far as registering the new dataframe.  The
\* time index of the new dataframe is the one NormalizeTimeIndex plans; the
\* frame is already sorted when that time index is inherited from the base
\* or is the time index of the base.
normalize_dataframe_rows(rows, base_time_index, copy_items, make_time_index, with_secondary) ==
    LET base == [name |-> "A", index |-> "id", time_index |-> base_time_index,
                 columns |-> {"id", "k", "t", "s"}]
        plan == NormalizeTimeIndex(base, <<>>, copy_items, make_time_index, None)
        already_sorted ==
            IF make_time_index \notin {None, True, False}
            THEN plan.time_index = base_time_index
            ELSE plan.time_index # None
    IN  /\ NormalizeArgumentError(base, "k", ColumnsArg("list", <<>>),
                                  ColumnsArg("list", copy_items),
                                  make_time_index) = None
        /\ plan.error = None
        /\ ~ContainsDuplicate(<<"k">> \o plan.copy_columns)
        /\ result' = Call("normalize_dataframe",
                          [rows |-> rows, base_time_index |-> base_time_index,
                           copy_columns |-> plan.copy_columns,
                           time_index |-> plan.time_index,
                           with_secondary |-> with_secondary],
                          "returned",
                          NormalizedRows(rows, "k", <<"k">> \o plan.copy_columns,
                                         plan.base_time_index, plan.time_index,
                                         IF with_secondary THEN <<"s">> ELSE <<>>,
                                         already_sorted))
        /\ UNCHANGED <<dataframe_dict, dataframe_keys, relationships, time_type,
                       data_description>>

-----------------------------------------------------------------------------
(* The metadata property.                                                  *)

\* EntitySet.metadata: the snapshot is computed when there is none, cached
\* and returned.
metadata ==
    /\ data_description' = IF data_description = NoDescription
                           THEN Description ELSE data_description
    /\ result' = Call("metadata", <<>>, "returned", data_description')
    /\ UNCHANGED <<dataframe_dict, dataframe_keys, relationships, time_type>>

-----------------------------------------------------------------------------
(* Relationship access.                                                    *)

\* A variant of get_forward_relationships that selects on the parent side.
GetForwardRelationshipsByParent(entity_id) ==
    SelectSeq(relationships, LAMBDA r : ParentDataframe(r).name = entity_id)

\* A variant of get_forward_relationships that lists the latest registered
\* relationship first.
GetForwardRelationshipsLatestFirst(entity_id) ==
    Reverse(SelectSeq(relationships, LAMBDA r : ChildDataframe(r).name = entity_id))

\* get_forward_relationships: the relationships whose child is entity_id,
\* in registration order.
GetForwardRelationships(entity_id) ==
    SelectSeq(relationships, LAMBDA r : ChildDataframe(r).name = entity_id)

\* get_backward_relationships: the relationships whose parent is entity_id.
GetBackwardRelationships(entity_id) ==
    SelectSeq(relationships, LAMBDA r : ParentDataframe(r).name = entity_id)

\* A variant of _forward_entity_paths in which every branch adds to one
\* shared seen set instead of to its own copy: SharedSeenPaths returns the
\* pairs together with the seen set it leaves behind.
RECURSIVE SharedSeenPaths(_, _), SharedSeenDescend(_, _, _)
SharedSeenPaths(start_dataframe_id, seen_dataframes) ==
    IF start_dataframe_id \in seen_dataframes
    THEN [pairs |-> <<>>, seen |-> seen_dataframes]
    ELSE LET d == SharedSeenDescend(GetForwardRelationships(start_dataframe_id),
                                    1, seen_dataframes \cup {start_dataframe_id})
         IN  [pairs |-> <<[id |-> start_dataframe_id, path |-> <<>>]>> \o d.pairs,
              seen  |-> d.seen]

SharedSeenDescend(forward, i, seen) ==
    IF i > Len(forward) THEN [pairs |-> <<>>, seen |-> seen]
    ELSE LET sub  == SharedSeenPaths(ParentDataframe(forward[i]).name, seen)
             rest == SharedSeenDescend(forward, i + 1, sub.seen)
         IN  [pairs |-> [j \in 1..Len(sub.pairs) |->
                            [id   |-> sub.pairs[j].id,
                             path |-> <<forward[i]>> \o sub.pairs[j].path]]
                        \o rest.pairs,
              seen  |-> rest.seen]

ForwardEntityPathsSharedSeen(start_dataframe_id, seen_dataframes) ==
    SharedSeenPaths(start_dataframe_id, seen_dataframes).pairs

\* _forward_entity_paths: the (dataframe id, path) pairs in the order the
\* generator yields them.  seen_dataframes is copied for every relationship
\* followed, so a branch sees only the dataframes on its own path.
RECURSIVE ForwardEntityPaths(_, _)
ForwardEntityPaths(start_dataframe_id, seen_dataframes) ==
    IF start_dataframe_id \in seen_dataframes THEN <<>>
    ELSE LET seen == seen_dataframes \cup {start_dataframe_id}
             forward == GetForwardRelationships(start_dataframe_id)
             Descend(relationship) ==
                 LET next_dataframe == ParentDataframe(relationship).name
                     descendants == ForwardEntityPaths(next_dataframe, seen)
                 IN  [i \in 1..Len(descendants) |->
                         [id   |-> descendants[i].id,
                          path |-> <<relationship>> \o descendants[i].path]]
         IN  <<[id |-> start_dataframe_id, path |-> <<>>]>> \o
             Flatten([i \in 1..Len(forward) |-> Descend(forward[i])])

\* A variant of find_forward_paths that leaves out the path of no steps.
FindForwardPathsOfSomeSteps(start_dataframe_id, goal_dataframe_id) ==
    LET pairs == SelectSeq(ForwardEntityPaths(start_dataframe_id, {}),
                           LAMBDA e : e.id = goal_dataframe_id /\ e.path # <<>>)
    IN  [i \in 1..Len(pairs) |-> pairs[i].path]

\* find_forward_paths: the paths of the pairs that end at the goal.
FindForwardPaths(start_dataframe_id, goal_dataframe_id) ==
    LET pairs == SelectSeq(ForwardEntityPaths(start_dataframe_id, {}),
                           LAMBDA e : e.id = goal_dataframe_id)
    IN  [i \in 1..Len(pairs) |-> pairs[i].path]

\* A variant of find_backward_paths that yields the forward paths as they
\* are, without path[::-1].
FindBackwardPathsNotReversed(start_dataframe_id, goal_dataframe_id) ==
    FindForwardPaths(goal_dataframe_id, start_dataframe_id)

\* find_backward_paths: path[::-1] of every forward path from goal to start.
FindBackwardPaths(start_dataframe_id, goal_dataframe_id) ==
    LET paths == FindForwardPaths(goal_dataframe_id, start_dataframe_id)
    IN  [i \in 1..Len(paths) |-> Reverse(paths[i])]

\* A variant of has_unique_forward_path that reads the first path with a
\* default, as next(paths, None), and so never raises.
HasUniqueForwardPathDefaulted(start_dataframe_id, end_dataframe_id) ==
    LET paths == FindForwardPaths(start_dataframe_id, end_dataframe_id)
    IN  [outcome |-> "returned",
         value   |-> IF Len(paths) >= 2 THEN paths[2] = <<>> ELSE TRUE]

\* has_unique_forward_path: next(paths) raises StopIteration when there is
\* no path; otherwise the answer is `not second_path`, second_path being
\* the second path or None.
HasUniqueForwardPath(start_dataframe_id, end_dataframe_id) ==
    LET paths == FindForwardPaths(start_dataframe_id, end_dataframe_id)
    IN  IF Len(paths) = 0
        THEN [outcome |-> "StopIteration", value |-> <<>>]
        ELSE [outcome |-> "returned",
              value   |-> IF Len(paths) >= 2 THEN paths[2] = <<>> ELSE TRUE]

\* A variant of a query that ends with reset_data_description().
QueryResettingDescription(op, start, goal, outcome, value) ==
    /\ result' = Call(op, [start |-> start, goal |-> goal], outcome, value)
    /\ data_description' = NoDescription
    /\ UNCHANGED <<dataframe_dict, dataframe_keys, relationships, time_type>>

\* A path query: result records the call, nothing else changes.
Query(op, start, goal, outcome, value) ==
    /\ result' = Call(op, [start |-> start, goal |-> goal], outcome, value)
    /\ UNCHANGED <<dataframe_dict, dataframe_keys, relationships, time_type,
                   data_description>>

find_forward_paths(start, goal) ==
    Query("find_forward_paths", start, goal, "returned",
          FindForwardPaths(start, goal))

find_backward_paths(start, goal) ==
    Query("find_backward_paths", start, goal, "returned",
          FindBackwardPaths(start, goal))

has_unique_forward_path(start, goal) ==
    LET r == HasUniqueForwardPath(start, goal)
    IN  Query("has_unique_forward_path", start, goal, r.outcome, r.value)

\* get_forward_entities: the (dataframe id, RelationshipPath) pairs in the
\* order the generator yields them.  With deep set the generator descends
\* into every parent without remembering where it has been: when it comes
\* back to a dataframe whose traversal is still under way (above), the
\* descent repeats itself and never ends.
RECURSIVE GetForwardEntitiesFrom(_, _, _)
GetForwardEntitiesFrom(entity_id, deep, above) ==
    IF entity_id \in above THEN [diverges |-> TRUE, pairs |-> <<>>]
    ELSE LET forward == GetForwardRelationships(entity_id)
             Visit(relationship) ==
                 LET parent_dataframe_id == ParentDataframe(relationship).name
                     direct_path == <<Step(TRUE, relationship)>>
                     sub == IF deep
                            THEN GetForwardEntitiesFrom(parent_dataframe_id, TRUE,
                                                        above \cup {entity_id})
                            ELSE [diverges |-> FALSE, pairs |-> <<>>]
                 IN  [diverges |-> sub.diverges,
                      pairs |-> <<[id |-> parent_dataframe_id, path |-> direct_path]>>
                                \o [j \in 1..Len(sub.pairs) |->
                                       [id   |-> sub.pairs[j].id,
                                        path |-> direct_path \o sub.pairs[j].path]]]
             visits == [i \in 1..Len(forward) |-> Visit(forward[i])]
         IN  [diverges |-> \E i \in 1..Len(visits) : visits[i].diverges,
              pairs |-> Flatten([i \in 1..Len(visits) |-> visits[i].pairs])]

GetForwardEntities(entity_id, deep) ==
    GetForwardEntitiesFrom(entity_id, deep, {})

\* get_backward_entities: the same over the backward relationships, with
\* every step flagged backward.
RECURSIVE GetBackwardEntitiesFrom(_, _, _)
GetBackwardEntitiesFrom(entity_id, deep, above) ==
    IF entity_id \in above THEN [diverges |-> TRUE, pairs |-> <<>>]
    ELSE LET backward == GetBackwardRelationships(entity_id)
             Visit(relationship) ==
                 LET child_dataframe_id == ChildDataframe(relationship).name
                     direct_path == <<Step(FALSE, relationship)>>
                     sub == IF deep
                            THEN GetBackwardEntitiesFrom(child_dataframe_id, TRUE,
                                                         above \cup {entity_id})
                            ELSE [diverges |-> FALSE, pairs |-> <<>>]
                 IN  [diverges |-> sub.diverges,
                      pairs |-> <<[id |-> child_dataframe_id, path |-> direct_path]>>
                                \o [j \in 1..Len(sub.pairs) |->
                                       [id   |-> sub.pairs[j].id,
                                        path |-> direct_path \o sub.pairs[j].path]]]
             visits == [i \in 1..Len(backward) |-> Visit(backward[i])]
         IN  [diverges |-> \E i \in 1..Len(visits) : visits[i].diverges,
              pairs |-> Flatten([i \in 1..Len(visits) |-> visits[i].pairs])]

GetBackwardEntities(entity_id, deep) ==
    GetBackwardEntitiesFrom(entity_id, deep, {})

\* A query about one dataframe: result records the call, nothing else
\* changes.  A traversal that never ends is recorded as the RecursionError
\* in which the nested generators end.
EntityQuery(op, entity_id, deep, e) ==
    /\ result' = Call(op, [entity_id |-> entity_id, deep |-> deep],
                      IF e.diverges THEN "RecursionError" ELSE "returned",
                      IF e.diverges THEN <<>> ELSE e.pairs)
    /\ UNCHANGED <<dataframe_dict, dataframe_keys, relationships, time_type,
                   data_description>>

get_forward_entities(entity_id, deep) ==
    EntityQuery("get_forward_entities", entity_id, deep,
                GetForwardEntities(entity_id, deep))

get_backward_entities(entity_id, deep) ==
    EntityQuery("get_backward_entities", entity_id, deep,
                GetBackwardEntities(entity_id, deep))

get_forward_relationships(entity_id) ==
    EntityQuery("get_forward_relationships", entity_id, FALSE,
                [diverges |-> FALSE, pairs |-> GetForwardRelationships(entity_id)])

get_backward_relationships(entity_id) ==
    EntityQuery("get_backward_relationships", entity_id, FALSE,
                [diverges |-> FALSE, pairs |-> GetBackwardRelationships(entity_id)])

-----------------------------------------------------------------------------
(* The callers' inputs.                                                    *)

\* A frame: its engine, whether it holds no rows, the physical type of each
\* of its columns, and the secondary time index its schema's metadata
\* declares (none, unless the frame comes with a schema that declares one).
Frame(engine, empty, dtype) ==
    [engine |-> engine, empty |-> empty, columns |-> DOMAIN dtype,
     dtype |-> dtype, secondary_time_index |-> <<>>]

\* The frames handed to add_dataframe.
Frames ==
    {Frame("pandas", FALSE, [id |-> "int64", k |-> "int64"]),
     Frame("pandas", TRUE, [id |-> "float64", k |-> "object"])}

ColumnIds == {"id", "k"}

\* The relationships the callers name: any column of a parent, and the
\* column k of a child.
Relationships ==
    {Relationship(p, pc, c, "k") :
        p \in DataframeIds, pc \in ColumnIds, c \in DataframeIds}

\* The ways a caller names the relationship.
Forms == {"ids", "relationship", "both"}

-----------------------------------------------------------------------------
(* The EntitySet.                                                          *)

\* EntitySet(id): no dataframes, no relationships, no time type; the
\* constructor ends with reset_data_description().
Init ==
    /\ dataframe_dict = <<>>
    /\ dataframe_keys = <<>>
    /\ relationships = <<>>
    /\ time_type = None
    /\ data_description = NoDescription
    /\ result = Call("__init__", <<>>, "returned", <<>>)

\* The callers register a dataframe id once, and stop adding relationships
\* when the list holds MaxRelationships of them.
Next ==
    \/ \E id \in DataframeIds, frame \in Frames, has_schema \in BOOLEAN,
          index \in {"id", None} :
            /\ id \notin DOMAIN dataframe_dict
            /\ add_dataframe(id, frame, has_schema, index, None, NoTags(frame), <<>>)
    \/ \E form \in Forms, r \in Relationships :
            /\ add_relationship(form, r)
            /\ Len(relationships') <= MaxRelationships
    \/ metadata

Spec == Init /\ [][Next]_vars

-----------------------------------------------------------------------------
(* An EntitySet built over three dataframes, and its relationship graph.   *)

GraphDataframeIds == {"A", "B", "C"}

GraphFrame(id) ==
    IF id = "A"
    THEN Frame("pandas", FALSE, [id |-> "int64", k |-> "int64"])
    ELSE Frame("pandas", FALSE, [id |-> "int64", k |-> "int64", k2 |-> "int64"])

\* The relationships the callers name, each from a foreign key column of
\* the child to the index of the parent.  Together they hold two parallel
\* relationships (B to A), two routes from C to A (direct, and through B),
\* a cycle (A to B to A) and a relationship of A with itself.
GraphRelationships ==
    {Relationship("A", "id", "B", "k"),
     Relationship("A", "id", "B", "k2"),
     Relationship("B", "id", "C", "k"),
     Relationship("A", "id", "C", "k2"),
     Relationship("B", "id", "A", "k"),
     Relationship("A", "id", "A", "k")}

\* EntitySet(id, dataframes) with {id: (frame, "id")} for the three ids:
\* add_dataframe for each, then reset_data_description().
GraphInit ==
    /\ dataframe_dict = [id \in GraphDataframeIds |->
                            WwInit(GraphFrame(id), id, "id", None,
                                   NoTags(GraphFrame(id)))]
    /\ dataframe_keys = <<"A", "B", "C">>
    /\ relationships = <<>>
    /\ time_type = None
    /\ data_description = NoDescription
    /\ result = Call("__init__", <<>>, "returned", <<>>)

\* The callers add the relationships in any order, and query the graph.
GraphNext ==
    \/ \E r \in GraphRelationships : add_relationship("ids", r)
    \/ \E start \in GraphDataframeIds, goal \in GraphDataframeIds :
            find_forward_paths(start, goal)
    \/ \E start \in GraphDataframeIds, goal \in GraphDataframeIds :
            find_backward_paths(start, goal)
    \/ \E start \in GraphDataframeIds, goal \in GraphDataframeIds :
            has_unique_forward_path(start, goal)

GraphSpec == GraphInit /\ [][GraphNext]_vars

\* The same three dataframes, with every query of the relationship graph.
\* The relationships the callers name hold two parallel relationships, a
\* chain (C to B to A), a cycle and a relationship of A with itself.
QueryRelationships ==
    GraphRelationships \ {Relationship("A", "id", "C", "k2")}

QueryNext ==
    \/ \E r \in QueryRelationships : add_relationship("ids", r)
    \/ metadata
    \/ \E start \in GraphDataframeIds, goal \in GraphDataframeIds :
            find_forward_paths(start, goal)
    \/ \E start \in GraphDataframeIds, goal \in GraphDataframeIds :
            find_backward_paths(start, goal)
    \/ \E start \in GraphDataframeIds, goal \in GraphDataframeIds :
            has_unique_forward_path(start, goal)
    \/ \E id \in GraphDataframeIds, deep \in BOOLEAN :
            get_forward_entities(id, deep)
    \/ \E id \in GraphDataframeIds, deep \in BOOLEAN :
            get_backward_entities(id, deep)
    \/ \E id \in GraphDataframeIds : get_forward_relationships(id)
    \/ \E id \in GraphDataframeIds : get_backward_relationships(id)

QuerySpec == GraphInit /\ [][QueryNext]_vars

-----------------------------------------------------------------------------
(* The path generators, consumed one step at a time.                       *)

\* The deepest nesting of _forward_entity_paths generators the model holds.
MaxDepth == 5

\* A call of _forward_entity_paths(start_dataframe_id, seen_dataframes) that
\* has not run yet, below the relationships in path: i is its place in the
\* loop over its forward relationships, 0 before the loop is reached.
Generator(start_dataframe_id, seen_dataframes, path) ==
    [id |-> start_dataframe_id, seen |-> seen_dataframes, path |-> path,
     forward |-> <<>>, i |-> 0]

\* A variant of seen_dataframes.add that leaves the set as it is.
SeenNotAdded(seen_dataframes, start_dataframe_id) == seen_dataframes

\* seen_dataframes.add(start_dataframe_id)
SeenAdd(seen_dataframes, start_dataframe_id) ==
    seen_dataframes \cup {start_dataframe_id}

\* The caller obtains the generator of find_forward_paths or
\* find_backward_paths: nothing has run yet.  find_backward_paths searches
\* forward from the goal to the start.
StartPaths(op, start, goal) ==
    /\ result.outcome # "running"
    /\ result' = Call(op, [start |-> start, goal |-> goal], "running",
                      [stack |-> <<Generator(IF op = "find_forward_paths"
                                             THEN start ELSE goal, {}, <<>>)>>,
                       paths |-> <<>>])
    /\ UNCHANGED <<dataframe_dict, dataframe_keys, relationships, time_type,
                   data_description>>

\* The generators after the innermost one has returned: the call itself
\* returns, with the paths it has yielded, when it was the outermost.
Returned(g) ==
    IF Len(g.stack) = 1
    THEN Call(result.op, result.args, "returned", g.paths)
    ELSE Call(result.op, result.args, "running",
              [g EXCEPT !.stack = SubSeq(@, 1, Len(@) - 1)])

\* The innermost generator yields its own dataframe with the path that led
\* to it; find_forward_paths passes the path on when the dataframe is the
\* one it looks for, find_backward_paths passes on path[::-1].
Yielded(g, top) ==
    LET searched == IF result.op = "find_forward_paths"
                    THEN result.args.goal ELSE result.args.start
        path     == IF result.op = "find_forward_paths"
                    THEN top.path ELSE Reverse(top.path)
    IN  IF top.id = searched THEN Append(g.paths, path) ELSE g.paths

\* The consumer asks for the next path, and the innermost generator runs
\* one step: it returns at once when its dataframe has been seen, else
\* yields it; then it starts a generator for the parent of each forward
\* relationship in turn, with a copy of its seen set, and returns after the
\* last.
NextPath ==
    /\ result.outcome = "running"
    /\ LET g   == result.value
           n   == Len(g.stack)
           top == g.stack[n]
       IN  IF top.i = 0
           THEN IF top.id \in top.seen
                THEN result' = Returned(g)
                ELSE result' =
                       [result EXCEPT !.value =
                           [stack |-> [g.stack EXCEPT ![n] =
                                          [top EXCEPT
                                              !.seen = SeenAdd(top.seen, top.id),
                                              !.forward =
                                                  GetForwardRelationships(top.id),
                                              !.i = 1]],
                            paths |-> Yielded(g, top)]]
           ELSE IF top.i > Len(top.forward)
           THEN result' = Returned(g)
           ELSE /\ n < MaxDepth
                /\ result' =
                       [result EXCEPT !.value.stack =
                           Append([g.stack EXCEPT ![n].i = top.i + 1],
                                  Generator(
                                      ParentDataframe(top.forward[top.i]).name,
                                      top.seen,
                                      Append(top.path, top.forward[top.i])))]
    /\ UNCHANGED <<dataframe_dict, dataframe_keys, relationships, time_type,
                   data_description>>

\* The callers add relationships between the three dataframes while no
\* generator is being consumed, obtain a generator and consume it.
PathsNext ==
    \/ \E r \in QueryRelationships :
            /\ result.outcome # "running"
            /\ add_relationship("ids", r)
    \/ \E start \in GraphDataframeIds, goal \in GraphDataframeIds :
            StartPaths("find_forward_paths", start, goal)
    \/ \E start \in GraphDataframeIds, goal \in GraphDataframeIds :
            StartPaths("find_backward_paths", start, goal)
    \/ NextPath

\* A caller that consumes a generator fully keeps asking for the next path.
PathsSpec == GraphInit /\ [][PathsNext]_vars /\ WF_vars(NextPath)

-----------------------------------------------------------------------------
(* EntitySet.__eq__, between the EntitySet and another one.                *)

\* An EntitySet as __eq__ reads it: its dataframes and its relationships.
EntitySetOf(dfs, rels) == [dataframe_dict |-> dfs, relationships |-> rels]

\* e.__eq__(other[eid], deep=deep) with deep=False: the two dataframes have
\* the same schema.
DataframeEq(e, o) == SchemaOnly(e) = SchemaOnly(o)

\* __eq__(self, other): the same number of dataframes, every dataframe of
\* self in other under its name and equal to it, and every relationship of
\* self in other.relationships.
EntitySetEq(self, other) ==
    IF Cardinality(DOMAIN self.dataframe_dict)
           # Cardinality(DOMAIN other.dataframe_dict)
    THEN FALSE
    ELSE IF \E eid \in DOMAIN self.dataframe_dict :
                \/ eid \notin DOMAIN other.dataframe_dict
                \/ ~DataframeEq(self.dataframe_dict[eid], other.dataframe_dict[eid])
    THEN FALSE
    ELSE \A i \in 1..Len(self.relationships) :
             \E j \in 1..Len(other.relationships) :
                 RelationshipEq(self.relationships[i], other.relationships[j])

\* The relationships the callers of the two EntitySets name: two from A to
\* B, and one of B with itself that changes no dataframe once B.k is a
\* foreign key.
EqRelationships ==
    {Relationship("A", "id", "B", "k"),
     Relationship("A", "id", "B", "k2"),
     Relationship("B", "id", "B", "k")}

\* The EntitySet that add_relationship leaves after the relationships rs
\* were added to es one after the other.
RECURSIVE WithRelationships(_, _)
WithRelationships(es, rs) ==
    IF rs = <<>> THEN es
    ELSE LET e == AddRelationshipEffectOn(es.dataframe_dict, es.relationships,
                                          Head(rs))
         IN  WithRelationships(EntitySetOf(e.dataframes, e.relationships),
                               Tail(rs))

\* The other EntitySets: built over the same three dataframes, with up to
\* two of the relationships added.
Others ==
    LET start == EntitySetOf([id \in GraphDataframeIds |->
                                 WwInit(GraphFrame(id), id, "id", None,
                                        NoTags(GraphFrame(id)))], <<>>)
    IN  {start}
        \cup {WithRelationships(start, <<r>>) : r \in EqRelationships}
        \cup {WithRelationships(start, <<r1, r2>>) :
                 r1 \in EqRelationships, r2 \in EqRelationships}

\* The caller compares the EntitySet with another one, both ways round:
\* self == other and other == self.
Compare(other) ==
    LET self == EntitySetOf(dataframe_dict, relationships)
    IN  /\ result' = Call("__eq__", other, "returned",
                          [self_other |-> EntitySetEq(self, other),
                           other_self |-> EntitySetEq(other, self)])
        /\ UNCHANGED <<dataframe_dict, dataframe_keys, relationships,
                       time_type, data_description>>

\* The callers add relationships to the EntitySet and compare it with the
\* others.
EqNext ==
    \/ \E r \in EqRelationships : add_relationship("ids", r)
    \/ \E other \in Others : Compare(other)

EqSpec == GraphInit /\ [][EqNext]_vars

-----------------------------------------------------------------------------
(* An EntitySet of dataframes with time indexes and of several engines.    *)

\* The frames handed to add_dataframe: an index, a numeric and a datetime
\* column, held by pandas or by dask.
TimeDtype == [id |-> "int64", t |-> "int64", d |-> "datetime64[ns]"]
TimeFrames ==
    {Frame("pandas", FALSE, TimeDtype), Frame("dask", FALSE, TimeDtype)}

\* A declaration of a secondary time index, as the caller writes it and as
\* _check_secondary_time_index leaves it.
Declared(column) == <<[time_index |-> column, columns |-> <<>>]>>
Stored(column) == <<[time_index |-> column, columns |-> <<column>>]>>

\* Frames that come with a schema whose metadata declares the secondary
\* time index d, as set_secondary_time_index of any EntitySet leaves them.
TimeFramesWithSchema ==
    {[frame EXCEPT !.secondary_time_index = Stored("d")] : frame \in TimeFrames}

TimeColumns == {"t", "d"}

\* The declarations a caller of set_secondary_time_index gives: with and
\* without the time column in its own list.
StiDeclarations ==
    {Declared(c) : c \in TimeColumns} \cup {Stored(c) : c \in TimeColumns}

\* The callers register each dataframe id once: a frame without a schema,
\* with or without a time index and a secondary time index, or a frame that
\* comes with its schema; then they declare secondary time indexes and read
\* the metadata.
TimeNext ==
    \/ \E id \in DataframeIds, frame \in TimeFrames,
          time_index \in TimeColumns \cup {None},
          sti \in {<<>>} \cup {Declared(c) : c \in TimeColumns} :
            /\ id \notin DOMAIN dataframe_dict
            /\ add_dataframe(id, frame, FALSE, "id", time_index,
                             NoTags(frame), sti)
    \/ \E id \in DataframeIds, frame \in TimeFramesWithSchema,
          time_index \in TimeColumns \cup {None} :
            /\ id \notin DOMAIN dataframe_dict
            /\ add_dataframe(id, frame, TRUE, "id", time_index,
                             NoTags(frame), <<>>)
    \/ \E id \in DataframeIds, sti \in StiDeclarations :
            set_secondary_time_index(id, sti)
    \/ metadata

TimeSpec == Init /\ [][TimeNext]_vars

-----------------------------------------------------------------------------
(* An EntitySet whose dataframes are split by normalize_dataframe.         *)

\* The frame the callers register: an index column, two candidate columns
\* to split on and a time column.
NormalizeDtype ==
    [id |-> "int64", k |-> "int64", x |-> "object", t |-> "datetime64[ns]"]
NormalizeFrame == Frame("pandas", FALSE, NormalizeDtype)

\* The values given for additional_columns and for copy_columns: nothing,
\* lists (one of them with a duplicate), and collections that are not lists.
ColumnsArgs ==
    {NoColumns,
     ColumnsArg("list", <<"x">>), ColumnsArg("list", <<"x", "x">>),
     ColumnsArg("list", <<"k">>), ColumnsArg("list", <<"t">>),
     ColumnsArg("tuple", <<"x">>), ColumnsArg("tuple", <<>>)}

\* The values given for index, make_time_index and
\* make_secondary_time_index.
NormalizeIndexes == {"k", "x", "id"}
MakeTimeIndexes == {None, True, False, "t"}
MakeSecondaryTimeIndexes == {<<>>, Declared("t")}

\* The callers register the dataframe A, with or without a time index, and
\* split it into the dataframe B until a call has registered B.  They vary
\* either the columns they name, leaving the time indexes to their
\* defaults, or the time indexes they ask for.
NormalizeNext ==
    \/ \E time_index \in {None, "t"} :
            /\ "A" \notin DOMAIN dataframe_dict
            /\ add_dataframe("A", NormalizeFrame, FALSE, "id", time_index,
                             NoTags(NormalizeFrame), <<>>)
    \/ \E index \in NormalizeIndexes, additional \in ColumnsArgs,
          copy \in ColumnsArgs :
            /\ "B" \notin DOMAIN dataframe_dict
            /\ normalize_dataframe("A", "B", index, additional, copy,
                                   None, <<>>, None)
    \/ \E additional \in {NoColumns, ColumnsArg("list", <<"x">>)},
          copy \in {NoColumns, ColumnsArg("list", <<"t">>)},
          make_time_index \in MakeTimeIndexes,
          make_secondary_time_index \in MakeSecondaryTimeIndexes :
            /\ "B" \notin DOMAIN dataframe_dict
            /\ normalize_dataframe("A", "B", "k", additional, copy,
                                   make_time_index, make_secondary_time_index,
                                   None)
    \/ metadata

NormalizeSpec == Init /\ [][NormalizeNext]_vars

-----------------------------------------------------------------------------
(* An EntitySet on which every operation is called.                        *)

\* The relationships the callers name themselves.
OperationsRelationships ==
    {Relationship("A", "id", "B", "k"), Relationship("B", "id", "A", "k")}

\* The callers register A, with a time index or without, and B; they split
\* A into B, add relationships one at a time or two at a time while the
\* list holds at most MaxRelationships of them, declare a secondary time
\* index, and ask about A and B.
OperationsNext ==
    \/ \E time_index \in {None, "t"} :
            /\ "A" \notin DOMAIN dataframe_dict
            /\ add_dataframe("A", NormalizeFrame, FALSE, "id", time_index,
                             NoTags(NormalizeFrame), <<>>)
    \/ /\ "B" \notin DOMAIN dataframe_dict
       /\ add_dataframe("B", NormalizeFrame, FALSE, "id", "k",
                        NoTags(NormalizeFrame), <<>>)
    \/ \E index \in {"k", "id"},
          additional \in {NoColumns, ColumnsArg("list", <<"x">>)} :
            /\ normalize_dataframe("A", "B", index, additional, NoColumns,
                                   None, <<>>, None)
            /\ Len(relationships') <= MaxRelationships
    \/ \E form \in {"ids", "both"}, r \in OperationsRelationships :
            /\ add_relationship(form, r)
            /\ Len(relationships') <= MaxRelationships
    \/ \E r1 \in OperationsRelationships, r2 \in OperationsRelationships :
            /\ add_relationships(<<r1, r2>>)
            /\ Len(relationships') <= MaxRelationships
    \/ /\ "A" \in DOMAIN dataframe_dict
       /\ "t" \in dataframe_dict["A"].columns
       /\ set_secondary_time_index("A", Declared("t"))
    \/ metadata
    \/ find_forward_paths("A", "B")
    \/ find_backward_paths("A", "B")
    \/ has_unique_forward_path("A", "B")
    \/ get_forward_entities("A", TRUE)
    \/ get_backward_entities("A", TRUE)
    \/ get_forward_relationships("A")
    \/ get_backward_relationships("A")

OperationsSpec == Init /\ [][OperationsNext]_vars

-----------------------------------------------------------------------------
(* The rows normalize_dataframe gives the new dataframe.                   *)

\* The values of the columns k, t and s, and the rows of the base.
RowValues == {1, 2}
BaseRow == [k : RowValues, t : RowValues, s : RowValues]

\* The rows of a base: any rows when the base has no time index, and
\* rows in the order of the time index t when it has one (ww.init keeps a
\* pandas dataframe with a time index sorted by it).
RECURSIVE RowsOfLength(_)
RowsOfLength(n) ==
    IF n = 0 THEN {<<>>}
    ELSE {Append(rows, row) : rows \in RowsOfLength(n - 1), row \in BaseRow}
IsSortedBy(rows, column) ==
    \A i \in 1..(Len(rows) - 1) : rows[i][column] <= rows[i + 1][column]
BaseRows(base_time_index) ==
    {rows \in UNION {RowsOfLength(n) : n \in 0..MaxRows} :
        base_time_index = None \/ IsSortedBy(rows, base_time_index)}

\* An EntitySet, and the rows of the base its caller holds.
RowsInit ==
    /\ dataframe_dict = <<>>
    /\ dataframe_keys = <<>>
    /\ relationships = <<>>
    /\ time_type = None
    /\ data_description = NoDescription
    /\ \E base_time_index \in {None, "t"} :
         \E rows \in BaseRows(base_time_index) :
            result = Call("__init__",
                          [rows |-> rows, base_time_index |-> base_time_index],
                          "returned", <<>>)

\* The caller splits the base once, copying the column t or no column,
\* and making the time index it asks for: none, the one inherited from the
\* base, or the column t.
RowsNext ==
    \/ \E copy_items \in {<<>>, <<"t">>}, with_secondary \in BOOLEAN :
            /\ result.op = "__init__"
            /\ \E make_time_index \in {None, True, False} :
                 normalize_dataframe_rows(result.args.rows,
                                          result.args.base_time_index,
                                          copy_items, make_time_index,
                                          with_secondary)
    \/ \E with_secondary \in BOOLEAN :
            /\ result.op = "__init__"
            /\ normalize_dataframe_rows(result.args.rows,
                                        result.args.base_time_index,
                                        <<"t">>, "t", with_secondary)

RowsSpec == RowsInit /\ [][RowsNext]_vars

-----------------------------------------------------------------------------
(* Forward and backward paths (GraphSpec).                                 *)

\* The dataframes a path visits when it is followed from start: start, then
\* the parent of each step.
Visited(path, start) ==
    <<start>> \o [i \in 1..Len(path) |-> path[i].parent_dataframe_id]

\* A simple forward path from start to goal: every step leaves the dataframe
\* reached so far through its child side, the last dataframe is goal, and no
\* dataframe is visited twice.
IsSimpleForwardPath(path, start, goal) ==
    LET visited == Visited(path, start)
    IN  /\ \A i \in 1..Len(path) : path[i].child_dataframe_id = visited[i]
        /\ visited[Len(path) + 1] = goal
        /\ \A i \in 1..Len(visited), j \in 1..Len(visited) :
               i # j => visited[i] # visited[j]

\* All the simple forward paths over the registered relationships.  A path
\* of as many steps as there are dataframes visits one of them twice, so the
\* longest candidates are there to be rejected.
SimpleForwardPaths(start, goal) ==
    {path \in UNION {[1..n -> Range(relationships)] :
                        n \in 0..Cardinality(DOMAIN dataframe_dict)} :
        IsSimpleForwardPath(path, start, goal)}

NoDuplicates(s) == \A i \in 1..Len(s), j \in 1..Len(s) : i # j => s[i] # s[j]

\* The dataframes reachable from a dataframe along child-to-parent steps.
RECURSIVE ReachableFrom(_)
ReachableFrom(ids) ==
    LET more == ids \cup {relationships[i].parent_dataframe_id :
                            i \in {j \in 1..Len(relationships) :
                                     relationships[j].child_dataframe_id \in ids}}
    IN  IF more = ids THEN ids ELSE ReachableFrom(more)

HasChain(a, b) == b \in ReachableFrom({a})

\* C1: find_forward_paths(start, goal) yields exactly the simple forward
\* paths from start to goal (child-to-parent steps, no dataframe visited
\* twice), and yields each of them once, whatever cycles, self-relationships
\* and parallel relationships the graph holds.
C1_ForwardPathsAreTheSimplePaths ==
    result.op = "find_forward_paths" =>
        /\ NoDuplicates(result.value)
        /\ Range(result.value) =
               SimpleForwardPaths(result.args.start, result.args.goal)

\* C1 happens: a query answered with three paths, one direct and two through
\* another dataframe, in a graph that also holds a cycle.
C1_Witness ==
    /\ result.op = "find_forward_paths"
    /\ Len(result.value) >= 3
    /\ \E i \in 1..Len(result.value) : Len(result.value[i]) = 2
    /\ \E i \in 1..Len(result.value) : Len(result.value[i]) = 1
    /\ \E x \in DOMAIN dataframe_dict, y \in DOMAIN dataframe_dict :
           x # y /\ HasChain(x, y) /\ HasChain(y, x)

\* Whether a value yielded as a step carries a direction flag.
HasDirectionFlag(step) == "is_forward" \in DOMAIN step

\* The relationship of a yielded step, flagged or not.
StepRelationship(step) ==
    IF HasDirectionFlag(step) THEN step.relationship ELSE step

\* Whether backward is forward with the steps in reverse order and every
\* direction flag inverted.
IsReversedAndInverted(backward, forward) ==
    /\ Len(backward) = Len(forward)
    /\ \A i \in 1..Len(backward) :
        LET b == backward[i]
            f == forward[Len(forward) + 1 - i]
        IN  /\ StepRelationship(b) = StepRelationship(f)
            /\ HasDirectionFlag(b)
            /\ HasDirectionFlag(f)
            /\ b.is_forward = ~f.is_forward

C3_UniqueForwardPath ==
    result.op = "has_unique_forward_path" =>
        LET n == Cardinality(SimpleForwardPaths(result.args.start,
                                                result.args.goal))
        IN  /\ n = 0 => result.outcome = "StopIteration"
            /\ n = 1 => result.outcome = "returned" /\ result.value = TRUE
            /\ n >= 2 => result.outcome = "returned" /\ result.value = FALSE

\* C3 happens: the query raised for a pair of dataframes without a path.
C3_Witness ==
    /\ result.op = "has_unique_forward_path"
    /\ result.outcome = "StopIteration"
    /\ relationships # <<>>

\* C4: between two distinct dataframes with no chain of relationships in
\* either direction, find_forward_paths yields nothing either way; and with
\* a single relationship of a parent P and a child C, find_forward_paths(C, P)
\* yields the one path made of that relationship and find_forward_paths(P, C)
\* yields nothing.
C4_NoChainNoPathAndSingleRelationship ==
    result.op = "find_forward_paths" =>
        LET start == result.args.start
            goal  == result.args.goal
        IN  /\ (start # goal /\ ~HasChain(start, goal) /\ ~HasChain(goal, start))
                   => result.value = <<>>
            /\ \A r \in Range(relationships) :
                   (relationships = <<r>>
                      /\ r.parent_dataframe_id # r.child_dataframe_id) =>
                       /\ (start = r.child_dataframe_id
                              /\ goal = r.parent_dataframe_id)
                              => result.value = << <<r>> >>
                       /\ (start = r.parent_dataframe_id
                              /\ goal = r.child_dataframe_id)
                              => result.value = <<>>

\* C4 happens: with a single relationship registered, the query from its
\* parent to its child came back empty.
C4_Witness ==
    /\ result.op = "find_forward_paths"
    /\ Len(relationships) = 1
    /\ relationships[1].parent_dataframe_id # relationships[1].child_dataframe_id
    /\ result.args.start = relationships[1].parent_dataframe_id
    /\ result.args.goal = relationships[1].child_dataframe_id
    /\ result.value = <<>>

-----------------------------------------------------------------------------
(* add_relationship (Spec).                                                *)

\* The calls that name the relationship one way only.
ValidForms == {"ids", "relationship"}

\* C5: add_relationship with a relationship equal to one already in the list
\* leaves the list as it is, warns and does not raise; and so the list never
\* holds two equal relationships.
C5_DuplicateIsIgnored ==
    /\ [][\A form \in ValidForms, r \in Relationships :
            (r \in Range(relationships) /\ add_relationship(form, r)) =>
                /\ relationships' = relationships
                /\ result'.outcome = "warning"]_vars
    /\ [](NoDuplicates(relationships))

\* C5 happens: a call was answered with the duplicate warning while the list
\* held two relationships.
C5_Witness ==
    /\ result.op = "add_relationship"
    /\ result.outcome = "warning"
    /\ Len(relationships) >= 2

\* C6 as stated: in any reachable state, add_relationship with a relationship
\* whose child column is the child dataframe's current index raises, appends
\* nothing, and does so before any mutation: no tag is added, no index is
\* changed and the cached snapshot is kept.
C6_ChildIndexAlwaysRaises ==
    [][\A form \in ValidForms, r \in Relationships :
        (/\ ChildExists(r)
         /\ ChildDataframe(r).index = r.child_column_id
         /\ add_relationship(form, r)) =>
            /\ result'.outcome = "ValueError: child column is also its index"
            /\ relationships' = relationships
            /\ dataframe_dict' = dataframe_dict
            /\ data_description' = data_description]_vars

\* C7 as stated: after an add_relationship that did not raise, the parent
\* column is the parent dataframe's index, whether the call had to promote
\* it or found it the index already (and then left the index alone).
C7_ParentColumnBecomesIndex ==
    [][\A form \in ValidForms, r \in Relationships :
        (/\ ParentExists(r)
         /\ add_relationship(form, r)
         /\ result'.outcome \in {"returned", "warning"}) =>
            /\ dataframe_dict'[r.parent_dataframe_id].index = r.parent_column_id
            /\ ParentDataframe(r).index = r.parent_column_id =>
                   dataframe_dict'[r.parent_dataframe_id].index =
                       ParentDataframe(r).index]_vars

\* C8 as stated: in every reachable state, the parent column of every
\* registered relationship is the current index of its parent dataframe.
C8_ParentColumnIsIndex ==
    \A i \in 1..Len(relationships) :
        ParentDataframe(relationships[i]).index =
            relationships[i].parent_column_id

\* C9 as stated: in every reachable state, the child column of every
\* registered relationship carries the foreign_key tag and is not the
\* current index of its child dataframe.
C9_ChildColumnIsTaggedAndNotIndex ==
    \A i \in 1..Len(relationships) :
        LET r == relationships[i]
        IN  /\ "foreign_key" \in ChildDataframe(r).semantic_tags[r.child_column_id]
            /\ ChildDataframe(r).index # r.child_column_id

\* What add_relationship leaves when it raised for the dtypes: nothing
\* appended, the cached snapshot kept, the child column tagged and the parent
\* column promoted.
RaisedForDtypesHalfDone(r) ==
    /\ result'.outcome = "ValueError: dtypes differ"
    /\ relationships' = relationships
    /\ data_description' = data_description
    /\ "foreign_key" \in
           dataframe_dict'[r.child_dataframe_id].semantic_tags[r.child_column_id]
    /\ dataframe_dict'[r.parent_dataframe_id].index = r.parent_column_id

\* C10 as stated: add_relationship with a parent and a child column of
\* different dtypes raises ValueError, appends nothing and keeps the cached
\* snapshot, while the foreign_key tag and the promotion of the parent index
\* it has already made remain.
C10_DtypeMismatchRaises ==
    [][\A form \in ValidForms, r \in Relationships :
        (/\ ParentExists(r)
         /\ ChildExists(r)
         /\ ParentDataframe(r).dtype[r.parent_column_id] #
                ChildDataframe(r).dtype[r.child_column_id]
         /\ add_relationship(form, r)) =>
            RaisedForDtypesHalfDone(r)]_vars

\* The dtype of the child column at the comparison: int64 in place of object
\* when the child is an empty pandas frame and the parent column is numeric.
ComparedChildDtype(r) ==
    LET child_df == ChildDataframe(r)
    IN  IF /\ child_df.engine = "pandas"
           /\ child_df.empty
           /\ child_df.dtype[r.child_column_id] = "object"
           /\ ParentDataframe(r).dtype[r.parent_column_id] \in {"int64", "float64"}
        THEN "int64"
        ELSE child_df.dtype[r.child_column_id]

\* C10 amended: add_relationship with a relationship that is not registered
\* yet, whose child column is not the child's index, and whose dtypes differ
\* at the comparison (after the object column of an empty pandas child has
\* been turned into int64 for a numeric parent column) raises ValueError,
\* appends nothing and keeps the cached snapshot, while the foreign_key tag,
\* the promotion of the parent index and that conversion remain.
C10_DtypeMismatchAtComparisonRaises ==
    [][\A form \in ValidForms, r \in Relationships :
        (/\ ParentExists(r)
         /\ ChildExists(r)
         /\ r \notin Range(relationships)
         /\ ChildDataframe(r).index # r.child_column_id
         /\ ParentDataframe(r).dtype[r.parent_column_id] # ComparedChildDtype(r)
         /\ add_relationship(form, r)) =>
            /\ RaisedForDtypesHalfDone(r)
            /\ dataframe_dict'[r.child_dataframe_id].dtype[r.child_column_id] =
                   ComparedChildDtype(r)]_vars

\* C10 happens: a call raised for the dtypes; a snapshot is still cached, a
\* column is tagged foreign_key and no relationship is registered.
C10_Witness ==
    /\ result.op = "add_relationship"
    /\ result.outcome = "ValueError: dtypes differ"
    /\ data_description # NoDescription
    /\ relationships = <<>>
    /\ \E id \in DOMAIN dataframe_dict :
           "foreign_key" \in dataframe_dict[id].semantic_tags["k"]

\* C19: the side effects of registering a relationship happen even when the
\* relationship is rejected as a duplicate: after a duplicate add_relationship
\* the parent column is the index of the parent and the child column carries
\* the foreign_key tag, whatever they were before the call.
C19_DuplicateStillMutates ==
    [][\A form \in ValidForms, r \in Relationships :
        (r \in Range(relationships) /\ add_relationship(form, r)) =>
            /\ dataframe_dict'[r.parent_dataframe_id].index = r.parent_column_id
            /\ "foreign_key" \in dataframe_dict'[r.child_dataframe_id]
                                    .semantic_tags[r.child_column_id]]_vars

-----------------------------------------------------------------------------
(* The cached snapshot, time types and engines (TimeSpec).                 *)

\* The calls that change the EntitySet.
MutatingOps ==
    {"add_dataframe", "add_relationship", "set_secondary_time_index",
     "normalize_dataframe"}

\* C11 as stated: after a mutating call (add_dataframe, add_relationship,
\* set_secondary_time_index, normalize_dataframe) has completed
\* successfully, the cached snapshot is unset, so that the next metadata
\* access recomputes it.
C11_MutatingCallsInvalidateCache ==
    (result.op \in MutatingOps /\ result.outcome = "returned") =>
        data_description = NoDescription

\* The time classification of a physical type.
TimeClass(dtype) ==
    IF dtype \in {"int64", "float64"} THEN "numeric"
    ELSE IF dtype = "datetime64[ns]" THEN "datetime"
    ELSE None

\* The secondary time index declarations a caller of add_dataframe gives.
StiArgs == {<<>>} \cup {Declared(c) : c \in TimeColumns}

\* Whether the frame is of the engine of the registered dataframes.
OfRegisteredEngine(frame) ==
    \A id \in DOMAIN dataframe_dict : dataframe_dict[id].engine = frame.engine

\* C12: when the EntitySet has a time_type, add_dataframe of a frame whose
\* time index is of the other classification raises the TypeError of the
\* time type check, and the dataframe is not added to the collection.
C12_TimeTypeConflictRaises ==
    [][\A id \in DataframeIds, frame \in TimeFrames \cup TimeFramesWithSchema,
          has_schema \in BOOLEAN, time_index \in TimeColumns, sti \in StiArgs :
        (/\ time_type # None
         /\ TimeClass(frame.dtype[time_index]) # time_type
         /\ OfRegisteredEngine(frame)
         /\ add_dataframe(id, frame, has_schema, "id", time_index,
                          NoTags(frame), sti)) =>
            /\ result'.outcome = "TypeError"
            /\ dataframe_dict' = dataframe_dict
            /\ dataframe_keys' = dataframe_keys]_vars

\* C12 happens: a registration was refused with a TypeError in an EntitySet
\* that holds a dataframe with a time index and has a time_type.
C12_Witness ==
    /\ result.op = "add_dataframe"
    /\ result.outcome = "TypeError"
    /\ time_type # None
    /\ \E id \in DOMAIN dataframe_dict : dataframe_dict[id].time_index # None
    /\ Cardinality(DOMAIN dataframe_dict) = 1

\* C13 as stated: in every reachable state, every registered dataframe's
\* time index, primary or secondary, is of the classification that is the
\* EntitySet's time_type.
C13_TimeIndexesAreOfTheTimeType ==
    \A id \in DOMAIN dataframe_dict :
        LET df == dataframe_dict[id]
        IN  /\ df.time_index # None =>
                   TimeClass(df.dtype[df.time_index]) = time_type
            /\ \A i \in 1..Len(df.secondary_time_index) :
                   TimeClass(df.dtype[df.secondary_time_index[i].time_index])
                       = time_type

-----------------------------------------------------------------------------
(* The queries (QuerySpec).                                                *)

QueryOps ==
    {"find_forward_paths", "find_backward_paths", "get_forward_entities",
     "get_backward_entities", "get_forward_relationships",
     "get_backward_relationships", "has_unique_forward_path"}

\* C15: the seven query calls are read-only: whatever their arguments and
\* their outcome, they leave the dataframes (with their indexes and tags),
\* the relationship list, time_type and the cached snapshot as they were.
C15_QueriesAreReadOnly ==
    [][result'.op \in QueryOps =>
          UNCHANGED <<dataframe_dict, dataframe_keys, relationships, time_type,
                      data_description>>]_vars

\* C15 happens: has_unique_forward_path raised while a snapshot was cached
\* and relationships were registered.
C15_Witness ==
    /\ result.op = "has_unique_forward_path"
    /\ result.outcome = "StopIteration"
    /\ data_description # NoDescription
    /\ Len(relationships) >= 2

-----------------------------------------------------------------------------
(* normalize_dataframe (NormalizeSpec).                                    *)

\* The columns a value given for additional_columns or copy_columns names.
Named(arg) == Range(OrEmptyList(arg).items)

\* C16: after a successful normalize_dataframe(base, new, index,
\* additional_columns, copy_columns, ...) a dataframe named new is
\* registered whose index is index; the base holds no column of
\* additional_columns any more, but still holds index and every copy
\* column; the base's column index carries the foreign_key tag; and the
\* relationship (new.index -> base.index) is in the relationship list.
C16_NormalizePostconditions ==
    (result.op = "normalize_dataframe" /\ result.outcome = "returned") =>
        LET base  == result.args.base_dataframe_id
            new   == result.args.new_dataframe_id
            index == result.args.index
        IN  /\ new \in DOMAIN dataframe_dict
            /\ dataframe_dict[new].name = new
            /\ dataframe_dict[new].index = index
            /\ Named(result.args.additional_columns)
                   \cap dataframe_dict[base].columns = {}
            /\ index \in dataframe_dict[base].columns
            /\ Named(result.args.copy_columns) \subseteq dataframe_dict[base].columns
            /\ "foreign_key" \in dataframe_dict[base].semantic_tags[index]
            /\ \E i \in 1..Len(relationships) :
                   relationships[i] = Relationship(new, index, base, index)

\* C16 happens: a split has returned that moved the column x out of the
\* base, copied the time index of the base and registered the relationship.
C16_Witness ==
    /\ result.op = "normalize_dataframe"
    /\ result.outcome = "returned"
    /\ result.args.additional_columns = ColumnsArg("list", <<"x">>)
    /\ "B" \in DOMAIN dataframe_dict
    /\ "x" \notin dataframe_dict["A"].columns
    /\ "x" \in dataframe_dict["B"].columns
    /\ dataframe_dict["B"].time_index = "first_A_time"
    /\ relationships = <<Relationship("B", "k", "A", "k")>>

\* A value was given that is not a list.
IsNotAList(arg) == arg.type \notin {"list", "NoneType"}

\* The arguments C18 is about, for a call on the dataframe base.
IsRefusedByC18(args, base) ==
    \/ args.index = base.index
    \/ args.index \in Range(args.additional_columns.items)
    \/ args.index \in Range(args.copy_columns.items)
    \/ ContainsDuplicate(args.additional_columns.items)
    \/ ContainsDuplicate(args.copy_columns.items)
    \/ IsNotAList(args.additional_columns)
    \/ IsNotAList(args.copy_columns)
    \/ /\ base.time_index # None
       /\ base.time_index \in Range(args.additional_columns.items)

-----------------------------------------------------------------------------
(* The relationship list over every operation (OperationsSpec).            *)

\* s is a prefix of t.
IsPrefix(s, t) == Len(s) <= Len(t) /\ SubSeq(t, 1, Len(s)) = s

\* C20: relationships are never removed or replaced: across every operation
\* (add_dataframe, add_relationship, add_relationships,
\* set_secondary_time_index, normalize_dataframe, the queries, and the calls
\* that fail) the relationship list before the operation is a prefix of the
\* list after it, and a call of add_relationship appends at most one
\* relationship.
C20_RelationshipsOnlyGrow ==
    [][/\ IsPrefix(relationships, relationships')
       /\ result'.op = "add_relationship" =>
              Len(relationships') <= Len(relationships) + 1]_vars

\* C20 happens: normalize_dataframe has replaced a dataframe that
\* registered relationships name, and has appended its own relationship to
\* them.
C20_Witness ==
    /\ result.op = "normalize_dataframe"
    /\ result.outcome = "returned"
    /\ result.args.new_dataframe_id = "B"
    /\ Len(relationships) >= 2
    /\ relationships[1] \in OperationsRelationships
    /\ relationships[Len(relationships)] = Relationship("B", "k", "A", "k")

-----------------------------------------------------------------------------
(* The rows of the new dataframe (RowsSpec).                               *)

\* The first and the last row of rows whose column k holds v.
FirstAt(rows, v) ==
    CHOOSE j \in 1..Len(rows) :
        rows[j].k = v /\ \A i \in 1..(j - 1) : rows[i].k # v
LastAt(rows, v) ==
    CHOOSE j \in 1..Len(rows) :
        rows[j].k = v /\ \A i \in (j + 1)..Len(rows) : rows[i].k # v

\* The name a copied column of the base has in the new dataframe.
NewName(column, time_index) ==
    IF column = "t" /\ time_index # None THEN time_index ELSE column

\* The new dataframe holds one row for each value of the index column of
\* the base, with the selected columns of the first base row of that value
\* and, when a secondary time index is asked for, its column of the last.
OneRowPerValueFirstAndLast(base, new, args) ==
    /\ Len(new) = Cardinality({base[j].k : j \in 1..Len(base)})
    /\ \A j \in 1..Len(base) : \E i \in 1..Len(new) : new[i].k = base[j].k
    /\ \A i \in 1..Len(new) :
          /\ \E j \in 1..Len(base) : new[i].k = base[j].k
          /\ \A c \in Range(args.copy_columns) :
                new[i][NewName(c, args.time_index)] =
                    base[FirstAt(base, new[i].k)][c]
          /\ args.with_secondary =>
                new[i].s = base[LastAt(base, new[i].k)].s

\* The rows of the new dataframe are in the order in which their values
\* occur first in the base.
InOrderOfFirstOccurrence(base, new) ==
    \A i1 \in 1..Len(new), i2 \in 1..Len(new) :
        i1 < i2 => FirstAt(base, new[i1].k) < FirstAt(base, new[i2].k)

IsSortedOnRegistration(args) ==
    /\ args.time_index # None
    /\ args.time_index = "t"
    /\ args.base_time_index # "t"

-----------------------------------------------------------------------------
(* Secondary time indexes as stored (TimeSpec).                            *)

\* The declaration sti with each time column a member of its own column
\* list: appended when the list does not name it, the list as given when it
\* does.
WithOwnColumns(sti) ==
    [i \in DOMAIN sti |->
        [time_index |-> sti[i].time_index,
         columns    |-> IF sti[i].time_index \in Range(sti[i].columns)
                        THEN sti[i].columns
                        ELSE Append(sti[i].columns, sti[i].time_index)]]

\* C21: after set_secondary_time_index(dataframe, mapping) has returned, and
\* after add_dataframe given a secondary_time_index has returned, the
\* dataframe's metadata stores the mapping, each secondary time column a
\* member of its own column list: appended when missing, not added again
\* when present.
C21_SecondaryTimeIndexStoredWithOwnColumns ==
    [][/\ \A id \in DataframeIds, sti \in StiDeclarations :
            (set_secondary_time_index(id, sti) /\ result'.outcome = "returned")
            => dataframe_dict'[id].secondary_time_index = WithOwnColumns(sti)
       /\ \A id \in DataframeIds, frame \in TimeFrames,
             time_index \in TimeColumns \cup {None},
             sti \in {Declared(c) : c \in TimeColumns} :
            (/\ id \notin DOMAIN dataframe_dict
             /\ add_dataframe(id, frame, FALSE, "id", time_index,
                              NoTags(frame), sti)
             /\ result'.outcome = "returned")
            => dataframe_dict'[id].secondary_time_index = WithOwnColumns(sti)
      ]_vars

\* A dataframe registered with the secondary time index d, declared without
\* d in its own list, that set_secondary_time_index has then given the
\* secondary time index t.
C21_Witness ==
    /\ result.op = "set_secondary_time_index"
    /\ result.outcome = "returned"
    /\ \E id \in DOMAIN dataframe_dict :
          dataframe_dict[id].secondary_time_index = Stored("t")
    /\ \E id \in DOMAIN dataframe_dict :
          dataframe_dict[id].secondary_time_index = Stored("d")

-----------------------------------------------------------------------------
(* The order of the forward paths (GraphSpec).                             *)

\* The place of a relationship in the EntitySet's list: the order of
\* registration.
RegisteredAt(r) ==
    CHOOSE i \in 1..Len(relationships) :
        /\ relationships[i] = r
        /\ \A j \in 1..(i - 1) : relationships[j] # r

\* p comes before q in depth-first order: q extends p, or at the first step
\* at which they differ p takes the relationship registered earlier.
IsDepthFirstBefore(p, q) ==
    \/ Len(p) < Len(q) /\ SubSeq(q, 1, Len(p)) = p
    \/ \E k \in 1..Len(p) :
          /\ k <= Len(q)
          /\ SubSeq(p, 1, k - 1) = SubSeq(q, 1, k - 1)
          /\ p[k] # q[k]
          /\ RegisteredAt(p[k]) < RegisteredAt(q[k])

\* C22: find_forward_paths(start, goal) yields its paths in depth-first
\* order with the earlier registered relationships first: of two yielded
\* paths, the one that takes the earlier registered relationship at the
\* first step at which they differ is yielded earlier, and a path is yielded
\* before every longer path that extends it.
C22_ForwardPathsInDepthFirstOrder ==
    result.op = "find_forward_paths" =>
        \A i \in 1..Len(result.value), j \in 1..Len(result.value) :
            i < j => IsDepthFirstBefore(result.value[i], result.value[j])

\* Three or more paths were yielded, of which two differ at their first
\* step and two share their first step and differ at the second.
C22_Witness ==
    /\ result.op = "find_forward_paths"
    /\ Len(result.value) >= 3
    /\ \E i \in 1..Len(result.value), j \in 1..Len(result.value) :
          /\ i < j
          /\ Len(result.value[i]) >= 1 /\ Len(result.value[j]) >= 1
          /\ result.value[i][1] # result.value[j][1]
    /\ \E i \in 1..Len(result.value), j \in 1..Len(result.value) :
          /\ i < j
          /\ Len(result.value[i]) >= 2 /\ Len(result.value[j]) >= 2
          /\ result.value[i][1] = result.value[j][1]
          /\ result.value[i][2] # result.value[j][2]

-----------------------------------------------------------------------------
(* The path from a dataframe to itself (GraphSpec).                        *)

\* C23: for every dataframe A and every relationship graph, also when A
\* lies on a cycle or has a relationship with itself, find_forward_paths(A,
\* A) yields exactly one path, the empty one, and
\* has_unique_forward_path(A, A) returns True without raising.
C23_OnePathToItself ==
    /\ (result.op = "find_forward_paths" /\ result.args.start = result.args.goal)
        => result.value = << <<>> >>
    /\ (result.op = "has_unique_forward_path"
          /\ result.args.start = result.args.goal)
        => (result.outcome = "returned" /\ result.value = TRUE)

\* has_unique_forward_path(A, A) was called with A on the cycle through B
\* and with the relationship of A with itself registered.
C23_Witness ==
    /\ result.op = "has_unique_forward_path"
    /\ result.args.start = "A" /\ result.args.goal = "A"
    /\ \E i \in 1..Len(relationships) :
          relationships[i] = Relationship("A", "id", "A", "k")
    /\ \E i \in 1..Len(relationships) :
          relationships[i] = Relationship("B", "id", "A", "k")
    /\ \E i \in 1..Len(relationships) :
          ParentDataframe(relationships[i]).name = "A"
          /\ ChildDataframe(relationships[i]).name = "B"

-----------------------------------------------------------------------------
(* The path generators come to an end (PathsSpec).                         *)

\* C24: the enumeration of paths is finite on every relationship graph that
\* registration builds, cycles and relationships of a dataframe with itself
\* included: a find_forward_paths or find_backward_paths generator that is
\* consumed fully returns, after finitely many paths.
C24_PathGeneratorsTerminate ==
    (result.outcome = "running") ~> (result.outcome = "returned")

\* A find_backward_paths generator has returned after two or more paths, on
\* a graph with the cycle through A and B and the relationship of A with
\* itself.
C24_Witness ==
    /\ result.op = "find_backward_paths"
    /\ result.outcome = "returned"
    /\ Len(result.value) >= 2
    /\ \E i \in 1..Len(relationships) :
          relationships[i] = Relationship("A", "id", "A", "k")
    /\ \E i \in 1..Len(relationships) :
          relationships[i] = Relationship("B", "id", "A", "k")
    /\ \E i \in 1..Len(relationships) :
          ParentDataframe(relationships[i]).name = "A"
          /\ ChildDataframe(relationships[i]).name = "B"

-----------------------------------------------------------------------------
(* The entity traversals (QuerySpec).                                      *)

\* C25 as stated: get_forward_entities(t, deep=True) and
\* get_backward_entities(t, deep=True) terminate on every relationship graph
\* that add_relationship builds, also when a chain of relationships leads
\* from a dataframe back to itself: the call returns the pairs it found.
C25_DeepEntityTraversalTerminates ==
    (/\ result.op \in {"get_forward_entities", "get_backward_entities"}
     /\ result.args.deep)
    => result.outcome = "returned"

\* The pairs of _forward_entity_paths from entity_id without the first, each
\* path with every step flagged forward.
ForwardEntityPathsBeyondStart(entity_id) ==
    LET pairs == Tail(ForwardEntityPaths(entity_id, {}))
    IN  [i \in 1..Len(pairs) |->
            [id   |-> pairs[i].id,
             path |-> [j \in 1..Len(pairs[i].path) |->
                          Step(TRUE, pairs[i].path[j])]]]

\* One pair per forward relationship of entity_id, in registration order:
\* the parent and the path of that one step.
DirectForwardEntities(entity_id) ==
    LET forward == SelectSeq(relationships,
                             LAMBDA r : r.child_dataframe_id = entity_id)
    IN  [i \in 1..Len(forward) |->
            [id   |-> forward[i].parent_dataframe_id,
             path |-> <<Step(TRUE, forward[i])>>]]

\* C26 as stated: on every graph get_forward_entities(t, deep=True) yields
\* the sequence of (dataframe id, path) pairs of _forward_entity_paths from t
\* without its first, zero-step pair, every step flagged forward; with
\* deep=False it yields one (parent, one-step path) pair per forward
\* relationship of t, in registration order.
C26_ForwardEntitiesAreForwardEntityPaths ==
    result.op = "get_forward_entities" =>
        /\ result.outcome = "returned"
        /\ result.value = IF result.args.deep
                          THEN ForwardEntityPathsBeyondStart(result.args.entity_id)
                          ELSE DirectForwardEntities(result.args.entity_id)

-----------------------------------------------------------------------------
(* The time type and the dataframes that carry it (TimeSpec).              *)

\* Whether the dataframe has a time index, primary or secondary, of the
\* classification tt.
HasTimeIndexOf(df, tt) ==
    \/ df.time_index # None /\ TimeClass(df.dtype[df.time_index]) = tt
    \/ \E i \in 1..Len(df.secondary_time_index) :
          TimeClass(df.dtype[df.secondary_time_index[i].time_index]) = tt

\* C27 as stated: in every reachable state, also after calls that raised,
\* whenever time_type is set some registered dataframe has a primary or
\* secondary time index of that classification; and an add_dataframe call
\* that fails leaves time_type as it was.
C27_TimeTypeHasACarrier ==
    /\ [](time_type # None =>
            \E id \in DOMAIN dataframe_dict :
                HasTimeIndexOf(dataframe_dict[id], time_type))
    /\ [][(result'.op = "add_dataframe" /\ result'.outcome # "returned")
            => time_type' = time_type]_vars

-----------------------------------------------------------------------------
(* The cached snapshot and the state it describes (TimeSpec).              *)

\* Whether the snapshot describes the EntitySet as it is: the same
\* dataframes, each with the same index, semantic tags and secondary time
\* index, and the same relationships.
DescribesCurrentState(description) ==
    /\ DOMAIN description.dataframes = DOMAIN dataframe_dict
    /\ \A id \in DOMAIN dataframe_dict :
          /\ description.dataframes[id].index = dataframe_dict[id].index
          /\ description.dataframes[id].semantic_tags
                 = dataframe_dict[id].semantic_tags
          /\ description.dataframes[id].secondary_time_index
                 = dataframe_dict[id].secondary_time_index
    /\ description.relationships = relationships

\* C28 as stated: whenever the cached snapshot is present it describes the
\* current state (dataframes, their indexes, semantic tags and secondary
\* time indexes, and the relationships); and two metadata accesses with no
\* operation in between return the same snapshot.
C28_CachedSnapshotIsCoherent ==
    /\ [](data_description # NoDescription =>
            DescribesCurrentState(data_description[1]))
    /\ [][(result.op = "metadata" /\ result'.op = "metadata")
            => result'.value = result.value]_vars

-----------------------------------------------------------------------------
(* The relationships and the dataframes they name (OperationsSpec).        *)

\* Whether the dataframe dataframe_id is registered under that name and has
\* the column column_id.
IsRegisteredColumn(dataframe_id, column_id) ==
    /\ dataframe_id \in DOMAIN dataframe_dict
    /\ dataframe_dict[dataframe_id].name = dataframe_id
    /\ column_id \in dataframe_dict[dataframe_id].columns

-----------------------------------------------------------------------------
(* EntitySet equality (EqSpec).                                            *)

====
